---- MODULE Spec2Model ----
(***************************************************************************)
(* Geospatial proximity and catchment resolution of the PRD web            *)
(* application (src/PRD/webapp/app.py) and of the catchment query script   *)
(* (src/PRD/scripts/query_school_catchments.py).                           *)
(*                                                                         *)
(* Units.  Latitudes and longitudes are integers in millidegrees (0.001    *)
(* degree).  Ground distances are integers in metres, kept as squares so   *)
(* that no precision is lost before a comparison.  distance_km, which the  *)
(* SQL rounds to 2 decimals of a kilometre, is an integer number of        *)
(* hundredths of a kilometre (500 is 5.00 km).                             *)
(***************************************************************************)
EXTENDS Integers, Sequences, FiniteSets, TLC

VARIABLES school_geometry,   \* gnaf.school_geometry: acara_sml_id -> row
          addresses,         \* gnaf.address_detail joined to its address_default_geocode row
          school_catchments, \* the catchment polygons (all kinds)
          req,               \* the request being answered
          resp,              \* the answer to req
          fault,             \* the database step that failed while req was answered
          address_default_geocode, \* the geocode table the ETL scripts work on
          indexes,           \* the indexes that exist on address_default_geocode
          maintenance,       \* the maintenance script in progress and its table locks
          school_profile_2025,     \* gnaf.school_profile_2025: acara_sml_id -> row
          users,             \* webapp.users joined to webapp.subscription_tiers
          session,           \* the user id of the session cookie
          db_log,            \* who opened a database connection for req
          usage_tracking,    \* the number of rows of webapp.usage_tracking
          psv_table,         \* the rows of the table the PSV loader fills
          pager,             \* a client paging through get_school_addresses
          workers,           \* the requests in progress inside track_api_usage
          stripe             \* Stripe: its customers, checkout sessions and delivered events

vars == <<school_geometry, addresses, school_catchments, req, resp, fault,
          address_default_geocode, indexes, maintenance, school_profile_2025,
          users, session, db_log, usage_tracking, psv_table, pager, workers, stripe>>

store == <<school_geometry, addresses, school_catchments>>

\* the state of the ETL scripts
offline == <<address_default_geocode, indexes, maintenance, school_profile_2025, psv_table>>

\* the state of the accounts and of the request dispatch
accounts == <<users, session, db_log, usage_tracking>>

\* the state of the clients and of the services outside the store
clients == <<pager, workers, stripe>>

\* number of address rows in the store
MaxAddr == 3

\* SQL NULL / Python None for a numeric column
NULL == -999999

\* a request parameter that is not in the query string
Missing == "<missing>"

----------------------------------------------------------------------------
(* Geometry primitives of PostGIS, as the queries use them.                *)

\* ST_SetSRID(ST_MakePoint(lng, lat), 4326); NULL when an argument is NULL
ST_MakePoint(lng, lat) ==
    IF lng = NULL \/ lat = NULL THEN [x |-> NULL, y |-> NULL]
    ELSE [x |-> lng, y |-> lat]

IsNullGeom(g) == g.x = NULL

\* squared planar distance of two geometries, in millidegrees squared:
\* what ST_DWithin(geometry, geometry, d) and geometry <-> geometry measure
DegDistSq(g, h) == (g.x - h.x) * (g.x - h.x) + (g.y - h.y) * (g.y - h.y)

\* a pre-filter of 0.05 degree
PrefilterRadiusWide == 45 + 5

\* the 0.045 degree radius of the pre-filter, in millidegrees
PrefilterRadius == 45

ST_DWithin(g, h, d) == DegDistSq(g, h) <= d * d

\* metres per millidegree of latitude (110.9 to 111.1 m between 10 and 44
\* degrees south)
MetresPerMilliDegLat == 111

\* metres per millidegree of longitude at latitude lat (millidegrees) on
\* the WGS84 spheroid: 92.4 m at 34 degrees south, 81.5 m at 43 degrees
\* south, 111.3 m at the equator
MetresPerMilliDegLon(lat) ==
    LET deg == (500 - lat) \div 1000
    IN  CASE deg = 34 -> 92
          [] deg = 43 -> 82
          [] OTHER    -> 111

\* squared ST_Distance(g::geography, h::geography) in square metres;
\* h is the reference point
GeogDistSq(g, h) ==
    LET dx == MetresPerMilliDegLon(h.y) * (g.x - h.x)
        dy == MetresPerMilliDegLat * (g.y - h.y)
    IN  dx * dx + dy * dy

RECURSIVE IsqrtBetween(_, _, _)
\* the largest r in lo..hi with r*r <= n, for lo*lo <= n
IsqrtBetween(n, lo, hi) ==
    IF lo >= hi THEN lo
    ELSE LET mid == (lo + hi + 1) \div 2
         IN  IF mid * mid <= n THEN IsqrtBetween(n, mid, hi)
             ELSE IsqrtBetween(n, lo, mid - 1)

Isqrt(n) == IsqrtBetween(n, 0, 16384)

\* ROUND((ST_Distance(geography, geography) / 1000.0)::numeric, 2), in
\* hundredths of a km: d/10 m rounded half up
distance_km(g, h) == (Isqrt(GeogDistSq(g, h)) + 5) \div 10

----------------------------------------------------------------------------
(* The store.                                                              *)

AcaraIds == {"41319"}

\* where a school is: Sydney CBD or Hobart.  The schools are Australian
\* ("approximately 5km in degrees at Australian latitudes"), and Hobart is
\* near the southern end of their latitudes.
SchoolSites == { [latitude |-> -33870, longitude |-> 151210],
                 [latitude |-> -42880, longitude |-> 147330] }

\* the places an address can have relative to the site, in millidegrees
\* east and north, with the locality there
AddressOffsets ==
    { [east |-> 40, north |->  0, locality_name |-> "EASTWOOD"],
      [east |-> 50, north |->  0, locality_name |-> "EASTWOOD"],
      [east |->  0, north |-> 35, locality_name |-> "NORTHBRIDGE"],
      [east |->  3, north |-> 45, locality_name |-> "NORTHBRIDGE"] }

\* one address_detail row with its street_locality, locality and
\* address_default_geocode rows; the *_retired fields are "date_retired IS
\* NOT NULL" of the four tables
AddressRow(site, o, slRetired) ==
    [latitude      |-> site.latitude + o.north,
     longitude     |-> site.longitude + o.east,
     geom          |-> ST_MakePoint(site.longitude + o.east, site.latitude + o.north),
     locality_name |-> o.locality_name,
     ad_retired    |-> FALSE,
     agc_retired   |-> FALSE,
     sl_retired    |-> slRetired,
     l_retired     |-> FALSE]

\* an address whose default geocode has no coordinates
UngeocodedRow ==
    [latitude |-> NULL, longitude |-> NULL, geom |-> ST_MakePoint(NULL, NULL),
     locality_name |-> "EASTWOOD",
     ad_retired |-> FALSE, agc_retired |-> FALSE, sl_retired |-> FALSE, l_retired |-> FALSE]

\* the rows an address of the store is drawn from: each place, or an
\* address without coordinates
AddressRows(site) ==
    {AddressRow(site, o, FALSE) : o \in AddressOffsets} \cup {UngeocodedRow}

\* addresses inside the 0.045 degree disc, and one of them again on a
\* retired street
NearbyRows(site) ==
    LET near == {p \in AddressOffsets : p.east * p.east + p.north * p.north <= 45 * 45}
    IN  {AddressRow(site, o, FALSE) : o \in near}
        \cup {AddressRow(site, o, TRUE) : o \in {p \in near : p.north = 0}}

\* the school_geometry rows of a school placed at site: located, or with
\* no latitude
SchoolRows(site) ==
    { [latitude |-> site.latitude, longitude |-> site.longitude],
      [latitude |-> NULL, longitude |-> site.longitude] }

\* the catchment polygons of the store: axis-parallel rectangles in
\* millidegrees with the school they belong to, its coordinates and the
\* kind of the catchment
CatchmentPolygons ==
    { [school_id |-> "2060", school_name |-> "Alpha Public School", school_type |-> "primary",
       school_lat |-> -33870, school_lng |-> 151210,
       lat_min |-> -34000, lat_max |-> -33500, lng_min |-> 151000, lng_max |-> 151500],
      [school_id |-> "8100", school_name |-> "Beta High School", school_type |-> "secondary",
       school_lat |-> -33900, school_lng |-> 151100,
       lat_min |-> -34200, lat_max |-> -33400, lng_min |-> 150900, lng_max |-> 151600],
      [school_id |-> "2061", school_name |-> "Gamma Public School", school_type |-> "primary",
       school_lat |-> NULL, school_lng |-> NULL,
       lat_min |-> -33850, lat_max |-> -33300, lng_min |-> 151200, lng_max |-> 151700],
      [school_id |-> "8101", school_name |-> "Delta Future School", school_type |-> "future",
       school_lat |-> -33700, school_lng |-> 151300,
       lat_min |-> -33800, lat_max |-> -33600, lng_min |-> 151200, lng_max |-> 151400] }

NoRequest == [handler |-> "none", school |-> Missing, limit |-> Missing, offset |-> Missing,
              suburb |-> Missing, lat |-> Missing, lng |-> Missing, school_type |-> Missing,
              q |-> Missing]

NoResponse == [status |-> 0, error |-> "", addresses |-> <<>>, total |-> 0,
               limit |-> 0, offset |-> 0, has_more |-> FALSE, schools |-> <<>>,
               info |-> <<>>]

\* no maintenance script is running: no step reached, no lock held on
\* address_default_geocode
NoMaintenance == [script |-> "none", step |-> "none", locks |-> {}]

\* a store whose addresses vary around one school, with every catchment loaded
InitProximity ==
    /\ \E site \in SchoolSites :
         /\ school_geometry \in
              {[i \in {} |-> 0]} \cup {[i \in AcaraIds |-> r] : r \in SchoolRows(site)}
         /\ addresses \in [1..MaxAddr -> AddressRows(site)]
    /\ school_catchments = CatchmentPolygons

\* a store whose catchments vary, with addresses around the Sydney site
InitCatchment ==
    /\ school_catchments \in SUBSET CatchmentPolygons
    /\ \E site \in {t \in SchoolSites : t.latitude = -33870} :
         /\ school_geometry = [i \in AcaraIds |-> [latitude |-> site.latitude,
                                                   longitude |-> site.longitude]]
         /\ addresses \in [1..MaxAddr -> NearbyRows(site)]

\* the ETL scripts are not running and their tables are empty
OfflineAtRest ==
    /\ address_default_geocode = <<>>
    /\ indexes = {}
    /\ maintenance = NoMaintenance
    /\ school_profile_2025 = <<>>
    /\ psv_table = <<>>

\* no account exists and no session is open
NoAccounts ==
    /\ users = <<>>
    /\ session = Missing
    /\ db_log = <<>>
    /\ usage_tracking = 0

\* no client is paging
NoPager == [school |-> Missing, limit |-> Missing, offset |-> 0, received |-> <<>>,
            showing_count |-> -1, has_more |-> FALSE]

\* no client is paging, no request is inside track_api_usage and Stripe
\* knows no customer
ClientsAtRest ==
    /\ pager = NoPager
    /\ workers = <<>>
    /\ stripe = <<>>

Init ==
    /\ InitProximity \/ InitCatchment
    /\ req = NoRequest
    /\ resp = NoResponse
    /\ fault = "none"
    /\ OfflineAtRest
    /\ NoAccounts
    /\ ClientsAtRest

----------------------------------------------------------------------------
(* Request parsing.                                                        *)

\* request.args.get(name, default)
ArgsGet(value, default) == IF value = Missing THEN default ELSE value

\* the strings Python's int() accepts, among those the model sends
IntLiterals == {"-1", "0", "1", "2", "3", "4", "5", "100", "500"}

\* int(s), for s in IntLiterals; it raises ValueError for any other string
int(s) ==
    CASE s = "-1"  -> -1
      [] s = "0"   -> 0
      [] s = "1"   -> 1
      [] s = "2"   -> 2
      [] s = "3"   -> 3
      [] s = "4"   -> 4
      [] s = "5"   -> 5
      [] s = "100" -> 100
      [] s = "500" -> 500

\* each value replaced by its default on its own
ParseLimitOffsetEach(limit, offset, defaultLimit) ==
    [limit  |-> IF limit \in IntLiterals THEN int(limit) ELSE defaultLimit,
     offset |-> IF offset \in IntLiterals THEN int(offset) ELSE 0]

\* the try/except around int(limit), int(offset): both values are replaced
\* by the defaults when either conversion raises
ParseLimitOffset(limit, offset, defaultLimit) ==
    IF limit \in IntLiterals /\ offset \in IntLiterals
    THEN [limit |-> int(limit), offset |-> int(offset)]
    ELSE [limit |-> defaultLimit, offset |-> 0]

\* is_coordinate_like(value): a string float() accepts, with a '.', whose
\* value is between -180 and 180
is_coordinate_like(value) == value \in {"151.2", "-33.87"}

\* name ILIKE '%' || pattern || '%'
ILikeContains(name, pattern) ==
    \/ pattern = ""
    \/ <<name, pattern>> \in { <<"EASTWOOD", "east">>, <<"EASTWOOD", "wood">>,
                               <<"NORTHBRIDGE", "north">> }

----------------------------------------------------------------------------
(* Sequences.                                                              *)

\* the sequences that list every element of S once
Perms(S) ==
    {f \in [1..Cardinality(S) -> S] : \A i, j \in 1..Cardinality(S) : f[i] = f[j] => i = j}

\* the orders in which the database may return the rows S under
\* ORDER BY key, for a function key on S: any order with non-decreasing key
OrderedBy(S, key) ==
    {f \in Perms(S) : \A i \in 1..(Cardinality(S) - 1) : key[f[i]] <= key[f[i + 1]]}

\* rows LIMIT limit OFFSET offset
LimitOffset(rows, limit, offset) ==
    SubSeq(rows, offset + 1, IF offset + limit > Len(rows) THEN Len(rows) ELSE offset + limit)

RECURSIVE InsertAfterEqual(_, _)
\* x placed in the sorted sequence s behind every element whose
\* distance_km is not larger
InsertAfterEqual(x, s) ==
    IF s = <<>> THEN <<x>>
    ELSE IF s[Len(s)].distance_km <= x.distance_km THEN Append(s, x)
    ELSE Append(InsertAfterEqual(x, SubSeq(s, 1, Len(s) - 1)), s[Len(s)])

\* the rows left in the order of the database
unsorted(rows) == rows

RECURSIVE sorted(_)
\* sorted(rows, key=lambda x: x['distance_km']): a stable sort
sorted(rows) ==
    IF rows = <<>> THEN <<>>
    ELSE InsertAfterEqual(rows[Len(rows)], sorted(SubSeq(rows, 1, Len(rows) - 1)))

----------------------------------------------------------------------------
(* get_australia_school_addresses: addresses within 5 km of a school.      *)

ErrorResponse(status, error) ==
    [NoResponse EXCEPT !.status = status, !.error = error]

\* the WHERE clause shared by the page query and the count query
NearCandidates(point, suburb) ==
    {id \in DOMAIN addresses :
        /\ ~IsNullGeom(addresses[id].geom)
        /\ ST_DWithin(addresses[id].geom, point, PrefilterRadius)
        /\ ILikeContains(addresses[id].locality_name, suburb)}

\* the rows the page query can return: the candidates in the order of
\* "geom <-> point", cut by LIMIT and OFFSET, each with its distance_km
NearPages(point, suburb, limit, offset) ==
    LET knn == [id \in NearCandidates(point, suburb) |-> DegDistSq(addresses[id].geom, point)]
        row(id) == [gnaf_id |-> id, distance_km |-> distance_km(addresses[id].geom, point)]
    IN  { LET page == LimitOffset(f, limit, offset)
          IN  [i \in 1..Len(page) |-> row(page[i])]
          : f \in OrderedBy(NearCandidates(point, suburb), knn) }

\* a count query without the optional filters
NearCountUnfiltered(point, suburb) == Cardinality(NearCandidates(point, ""))

\* COUNT(DISTINCT ad.address_detail_pid) of the count query
NearCount(point, suburb) == Cardinality(NearCandidates(point, suburb))

\* the exact 5 km cut of the post-processing, in hundredths of a km
WithinFiveKm(row) == row.distance_km <= 500

\* [addr for addr in addresses if addr['distance_km'] <= 5.0]
filtered_addresses(rows) == SelectSeq(rows, WithinFiveKm)

\* the responses the handler can give to one request
AustraliaSchoolAddresses(acara_sml_id, args, connected) ==
    LET suburb == ArgsGet(args.suburb, "")
        parsed == ParseLimitOffset(ArgsGet(args.limit, "100"), ArgsGet(args.offset, "0"), 100)
    IN  IF suburb # "" /\ is_coordinate_like(suburb)
        THEN {ErrorResponse(400, "Invalid suburb name: looks like a coordinate value")}
        ELSE IF ~connected
        THEN {ErrorResponse(500, "Database connection failed")}
        ELSE IF acara_sml_id \notin DOMAIN school_geometry
        THEN {ErrorResponse(404, "School not found")}
        ELSE IF school_geometry[acara_sml_id].latitude = NULL
                \/ school_geometry[acara_sml_id].longitude = NULL
        THEN \* float(None) raises TypeError inside the try block
             {ErrorResponse(500, "Database query failed")}
        ELSE IF parsed.limit < 0 \/ parsed.offset < 0
        THEN \* the database rejects a negative LIMIT or OFFSET
             {ErrorResponse(500, "Database query failed")}
        ELSE LET point == ST_MakePoint(school_geometry[acara_sml_id].longitude,
                                       school_geometry[acara_sml_id].latitude)
             IN  { [NoResponse EXCEPT
                      !.status = 200,
                      !.addresses = sorted(filtered_addresses(page)),
                      !.total = NearCount(point, suburb),
                      !.limit = parsed.limit,
                      !.offset = parsed.offset]
                   : page \in NearPages(point, suburb, parsed.limit, parsed.offset) }

\* the steps of an address request that use the database: opening the
\* connection, the school lookup, the page query and the count query
DatabaseSteps == {"connect", "school", "page", "count"}

\* the step at which the request that would be answered by r stops when
\* the step failing raises: "none" when the request returns before that
\* step.  The connection is opened after the check of the suburb; the
\* school lookup follows; the page and the count query run for a school
\* that was found, with coordinates and with a LIMIT the database accepts.
StepFailed(r, failing) ==
    CASE failing = "connect" ->
           IF r.error = "Database connection failed" THEN "connect" ELSE "none"
      [] failing = "school" ->
           IF r.status \in {404, 200} \/ r.error = "Database query failed"
           THEN "school" ELSE "none"
      [] failing \in {"page", "count"} ->
           IF r.status = 200 THEN failing ELSE "none"
      [] OTHER -> "none"

\* a failed count query answered with the page and a total of 0
TryExceptPartial(r, failing) ==
    IF StepFailed(r, failing) \in {"school", "page"}
    THEN ErrorResponse(500, "Database query failed")
    ELSE IF StepFailed(r, failing) = "count"
    THEN [r EXCEPT !.total = 0, !.has_more = FALSE]
    ELSE r

\* the try block around the queries with its "except Exception": a query
\* that raises turns the answer r into the 500 of the except branch
TryExcept(r, failing) ==
    IF StepFailed(r, failing) \in {"school", "page", "count"}
    THEN ErrorResponse(500, "Database query failed")
    ELSE r

\* the query strings the model sends to the two address endpoints
AddressRequests ==
    { [limit |-> l, offset |-> o, suburb |-> s] :
        l \in {Missing, "1", "2"}, o \in {Missing, "1", "2"}, s \in {Missing, "east"} }
    \cup { [limit |-> l, offset |-> o, suburb |-> Missing] :
             l \in {"abc", "0", "-1"}, o \in {Missing, "1"} }
    \cup { [limit |-> l, offset |-> o, suburb |-> Missing] :
             l \in {Missing, "2"}, o \in {"abc", "-1"} }
    \cup { [limit |-> Missing, offset |-> Missing, suburb |-> "151.2"] }

\* the requests with the database step that fails while they are answered
\* ("none": no step fails): every request with the database up or down,
\* two of them with each query failing
AddressCalls ==
    [args : AddressRequests, failing : {"none", "connect"}]
    \cup [args : { [limit |-> Missing, offset |-> Missing, suburb |-> s] : s \in {Missing, "east"} },
          failing : {"school", "page", "count"}]

\* no request is being answered
Idle == req = NoRequest /\ resp = NoResponse

get_australia_school_addresses ==
    /\ Idle
    /\ \E acara_sml_id \in AcaraIds, call \in AddressCalls :
        /\ req' = [NoRequest EXCEPT !.handler = "get_australia_school_addresses",
                                    !.school = acara_sml_id,
                                    !.limit = call.args.limit,
                                    !.offset = call.args.offset,
                                    !.suburb = call.args.suburb]
        /\ \E r \in AustraliaSchoolAddresses(acara_sml_id, call.args, call.failing # "connect") :
             /\ resp' = TryExcept(r, call.failing)
             /\ fault' = StepFailed(r, call.failing)
    /\ UNCHANGED <<clients, store, offline, accounts>>

----------------------------------------------------------------------------
(* Catchment polygons.                                                     *)

\* a containment test that reads the point as (lat, lng)
ST_ContainsLatLng(polygon, point) ==
    /\ ~IsNullGeom(point)
    /\ polygon.lng_min < point.y /\ point.y < polygon.lng_max
    /\ polygon.lat_min < point.x /\ point.x < polygon.lat_max

\* ST_Contains(polygon, point): the point is in the interior of the
\* polygon; false (SQL NULL) for a NULL point
ST_Contains(polygon, point) ==
    /\ ~IsNullGeom(point)
    /\ polygon.lng_min < point.x /\ point.x < polygon.lng_max
    /\ polygon.lat_min < point.y /\ point.y < polygon.lat_max

----------------------------------------------------------------------------
(* get_school_addresses: addresses inside the catchment of a school.       *)

\* a school lookup joined to the addresses: the catchment rows of a school
\* that contain an address
SchoolCatchmentJoined(school_id) ==
    {c \in school_catchments :
        /\ c.school_id = school_id
        /\ \E id \in DOMAIN addresses : c.lng_min < addresses[id].geom.x
                                         /\ addresses[id].geom.x < c.lng_max
                                         /\ c.lat_min < addresses[id].geom.y
                                         /\ addresses[id].geom.y < c.lat_max}

\* the catchment rows of a school: the CTE school_catchment
SchoolCatchment(school_id) == {c \in school_catchments : c.school_id = school_id}

\* the WHERE clause of the count query
CatchmentCountCandidates(school_id, suburb) ==
    {id \in DOMAIN addresses :
        /\ ~addresses[id].ad_retired
        /\ ~addresses[id].agc_retired
        /\ ~IsNullGeom(addresses[id].geom)
        /\ \E sc \in SchoolCatchment(school_id) : ST_Contains(sc, addresses[id].geom)
        /\ ILikeContains(addresses[id].locality_name, suburb)}

\* the WHERE clause of the page query
CatchmentPageCandidates(school_id, suburb) ==
    {id \in CatchmentCountCandidates(school_id, suburb) :
        /\ ~addresses[id].sl_retired
        /\ ~addresses[id].l_retired}

\* the page query: DISTINCT ON (address_detail_pid) ORDER BY
\* address_detail_pid, cut by LIMIT and OFFSET
CatchmentPage(school_id, school_point, suburb, limit, offset) ==
    LET S == CatchmentPageCandidates(school_id, suburb)
        f == CHOOSE g \in OrderedBy(S, [id \in S |-> id]) : TRUE
        page == LimitOffset(f, limit, offset)
    IN  [i \in 1..Len(page) |->
            [gnaf_id |-> page[i],
             distance_km |-> IF IsNullGeom(school_point) THEN NULL
                             ELSE distance_km(addresses[page[i]].geom, school_point)]]

\* the responses of the handler to one request.  The store holds no
\* school_type_lookup row, so COALESCE(pf.latitude, s.school_lat) is
\* s.school_lat.
SchoolAddresses(school_id, args, connected, location) ==
    LET suburb == ArgsGet(args.suburb, "")
        parsed == ParseLimitOffset(ArgsGet(args.limit, "500"), ArgsGet(args.offset, "0"), 500)
    IN  IF suburb # "" /\ is_coordinate_like(suburb)
        THEN ErrorResponse(400, "Invalid suburb name: looks like a coordinate value")
        ELSE IF ~connected
        THEN ErrorResponse(500, "Database connection failed")
        ELSE IF SchoolCatchment(school_id) = {}
        THEN ErrorResponse(404, "School not found")
        ELSE IF parsed.limit < 0 \/ parsed.offset < 0
        THEN ErrorResponse(500, "Database query failed")
        ELSE LET page == CatchmentPage(school_id,
                                       ST_MakePoint(location.school_lng, location.school_lat),
                                       suburb, parsed.limit, parsed.offset)
                 total_count == Cardinality(CatchmentCountCandidates(school_id, suburb))
             IN  [NoResponse EXCEPT
                    !.status = 200,
                    !.addresses = page,
                    !.total = total_count,
                    !.limit = parsed.limit,
                    !.offset = parsed.offset,
                    !.has_more = (parsed.offset + Len(page)) < total_count]

SchoolIds == {"2060", "2061"}

get_school_addresses ==
    /\ Idle
    /\ \E school_id \in SchoolIds, call \in AddressCalls :
        /\ req' = [NoRequest EXCEPT !.handler = "get_school_addresses",
                                    !.school = school_id,
                                    !.limit = call.args.limit,
                                    !.offset = call.args.offset,
                                    !.suburb = call.args.suburb]
        /\ \E location \in IF SchoolCatchment(school_id) = {}
                             THEN {[school_lat |-> NULL, school_lng |-> NULL]}
                             ELSE SchoolCatchment(school_id) :   \* LIMIT 1 of the lookup
             LET r == SchoolAddresses(school_id, call.args, call.failing # "connect", location)
             IN  /\ resp' = TryExcept(r, call.failing)
                 /\ fault' = StepFailed(r, call.failing)
    /\ UNCHANGED <<clients, store, offline, accounts>>

----------------------------------------------------------------------------
(* get_schools_for_address: the schools whose catchment contains a point.  *)

\* the strings Python's float() accepts, among those the model sends, with
\* their value in millidegrees
FloatLiterals == {"-33.9", "-33.75", "-34.0", "-35.0", "151.1", "151.25"}

float(s) ==
    CASE s = "-33.9"  -> -33900
      [] s = "-33.75" -> -33750
      [] s = "-34.0"  -> -34000
      [] s = "-35.0"  -> -35000
      [] s = "151.1"  -> 151100
      [] s = "151.25" -> 151250

\* the rank of a string in the ascending order of ORDER BY
TypeRank(school_type) ==
    CASE school_type = "future"    -> 1
      [] school_type = "primary"   -> 2
      [] school_type = "secondary" -> 3

NameRank(school_name) ==
    CASE school_name = "Alpha Public School"  -> 1
      [] school_name = "Beta High School"     -> 2
      [] school_name = "Delta Future School"  -> 3
      [] school_name = "Gamma Public School"  -> 4

\* SELECT DISTINCT school_id, school_name, school_type ... WHERE
\* ST_Contains(geometry, point) ORDER BY school_type, school_name
SchoolsContaining(point) ==
    LET S == { [school_id |-> c.school_id, school_name |-> c.school_name,
                school_type |-> c.school_type] :
               c \in {d \in school_catchments : ST_Contains(d, point)} }
        key == [r \in S |-> 10 * TypeRank(r.school_type) + NameRank(r.school_name)]
    IN  OrderedBy(S, key)

SchoolsForAddress(args, connected) ==
    IF ArgsGet(args.lat, "") \notin FloatLiterals \/ ArgsGet(args.lng, "") \notin FloatLiterals
    THEN {ErrorResponse(400, "Valid lat and lng parameters required")}
    ELSE IF ~connected
    THEN {ErrorResponse(500, "Database connection failed")}
    ELSE { [NoResponse EXCEPT !.status = 200, !.total = Len(schools), !.schools = schools] :
           schools \in SchoolsContaining(ST_MakePoint(float(args.lng), float(args.lat))) }

PointRequests ==
    { [lat |-> a, lng |-> g] :
        a \in {Missing, "abc", "-33.9", "-33.75", "-34.0", "-35.0"},
        g \in {Missing, "151.1", "151.25"} }

get_schools_for_address ==
    /\ Idle
    /\ \E args \in PointRequests, connected \in BOOLEAN :
        /\ req' = [NoRequest EXCEPT !.handler = "get_schools_for_address",
                                    !.lat = args.lat, !.lng = args.lng]
        /\ resp' \in SchoolsForAddress(args, connected)
        /\ fault' = IF resp'.error = "Database connection failed" THEN "connect" ELSE "none"
    /\ UNCHANGED <<clients, store, offline, accounts>>

----------------------------------------------------------------------------
(* find_school_catchment_by_coordinates of query_school_catchments.py.     *)

\* one table for the polygons of every kind
CatchmentTableAnyKind(school_type) == school_catchments

\* the table school_catchments_<school_type>: the polygons of that kind
CatchmentTable(school_type) == {c \in school_catchments : c.school_type = school_type}

\* the rows "... WHERE ST_Contains(geometry, point) LIMIT 1" can return,
\* as the function returns them: <<row>>, or <<>> for None
FindSchoolCatchmentByCoordinates(latitude, longitude, school_type) ==
    LET hits == {c \in CatchmentTable(school_type) :
                    ST_Contains(c, ST_MakePoint(longitude, latitude))}
    IN  IF hits = {} THEN {<<>>}
        ELSE { <<[school_id |-> c.school_id, school_name |-> c.school_name,
                  school_type |-> c.school_type]>> : c \in hits }

\* the calls the model makes: the coordinates as strings of FloatLiterals
\* (Missing stands for None), school_type Missing when the caller leaves
\* the default
CoordinateCalls ==
    { [lat |-> a, lng |-> g, school_type |-> k] :
        a \in {Missing, "-33.9", "-33.75", "-34.0", "-35.0"},
        g \in {"151.1", "151.25"},
        k \in {Missing, "primary", "secondary", "future"} }

find_school_catchment_by_coordinates ==
    /\ Idle
    /\ \E args \in CoordinateCalls :
        LET latitude == IF args.lat = Missing THEN NULL ELSE float(args.lat)
            school_type == ArgsGet(args.school_type, "primary")
        IN  /\ req' = [NoRequest EXCEPT !.handler = "find_school_catchment_by_coordinates",
                                        !.lat = args.lat, !.lng = args.lng,
                                        !.school_type = args.school_type]
            /\ \E result \in FindSchoolCatchmentByCoordinates(latitude, float(args.lng), school_type) :
                 resp' = [NoResponse EXCEPT !.status = 200, !.total = Len(result),
                                            !.schools = result]
    /\ UNCHANGED <<clients, store, offline, accounts, fault>>

----------------------------------------------------------------------------

\* the response goes back to the caller and the next request can start
Return ==
    /\ ~Idle
    /\ req' = NoRequest
    /\ resp' = NoResponse
    /\ fault' = "none"
    /\ db_log' = <<>>
    /\ UNCHANGED <<clients, store, offline, users, session, usage_tracking>>

Next ==
    \/ get_australia_school_addresses
    \/ get_school_addresses
    \/ get_schools_for_address
    \/ find_school_catchment_by_coordinates
    \/ Return

Spec == Init /\ [][Next]_vars

----------------------------------------------------------------------------
(* Properties of the 5 km proximity query.                                 *)

\* the handler answered the request with a list of addresses
ProximityAnswered == req.handler = "get_australia_school_addresses" /\ resp.status = 200

\* the reference point of the request being answered
SchoolPoint == ST_MakePoint(school_geometry[req.school].longitude,
                            school_geometry[req.school].latitude)

ReturnedIds == {resp.addresses[i].gnaf_id : i \in 1..Len(resp.addresses)}

\* squared ground distance of address id to the school, in square metres
GroundDistSq(id) == GeogDistSq(addresses[id].geom, SchoolPoint)

\* the lists the request would get with an unbounded limit and offset 0
FullLists ==
    { sorted(filtered_addresses(page)) :
        page \in NearPages(SchoolPoint, ArgsGet(req.suburb, ""), MaxAddr, 0) }

\* C1: every address the proximity query returns lies at most 5 km from
\* the school on the ground, within 1 cm: its distance d in metres has
\* d <= 5000.01, that is d*d <= 5000*5000 + 100 for the whole square
\* metres of the model, although the comparison is made on the distance
\* rounded to 10 m.
C1_WithinRadius ==
    ProximityAnswered =>
        \A id \in ReturnedIds : GroundDistSq(id) <= 5000 * 5000 + 100

\* C1 witness: an address is returned while the store also holds an
\* address between 5000.01 m and 5005 m, which the rounding alone would
\* let through
C1_Witness ==
    /\ ProximityAnswered
    /\ ReturnedIds # {}
    /\ \E id \in DOMAIN addresses :
         /\ ~IsNullGeom(addresses[id].geom)
         /\ GroundDistSq(id) > 5000 * 5000 + 100
         /\ distance_km(addresses[id].geom, SchoolPoint) <= 500
         /\ id \notin ReturnedIds

\* C2: the unpaginated result is exactly the set of geocoded addresses
\* matching the filter whose ground distance to the school is at most
\* 5.0 km.
C2_ExactlyWithinFiveKm ==
    (ProximityAnswered /\ resp.offset = 0 /\ resp.limit >= MaxAddr) =>
        ReturnedIds =
            {id \in DOMAIN addresses :
                /\ ~IsNullGeom(addresses[id].geom)
                /\ ILikeContains(addresses[id].locality_name, ArgsGet(req.suburb, ""))
                /\ GroundDistSq(id) <= 5000 * 5000}

\* C3: the total of a response is the number of addresses the same
\* request returns with an unbounded limit and offset 0.
C3_TotalIsFullLength ==
    ProximityAnswered => \A full \in FullLists : resp.total = Len(full)

\* C3 witness: a paginated answer with a filter, whose total is larger
\* than the page and smaller than the store
C3_Witness ==
    /\ ProximityAnswered
    /\ req.suburb = "east"
    /\ Len(resp.addresses) < resp.total
    /\ resp.total < MaxAddr
    /\ \E id \in DOMAIN addresses :
         /\ ~IsNullGeom(addresses[id].geom)
         /\ ST_DWithin(addresses[id].geom, SchoolPoint, PrefilterRadius)
         /\ ~ILikeContains(addresses[id].locality_name, "east")

\* C4: the page for limit L and offset O is the slice [O, O+L) of the
\* full list ordered by ground distance.
C4_PageIsSliceOfFullList ==
    ProximityAnswered =>
        \E full \in FullLists :
            resp.addresses = LimitOffset(full, resp.limit, resp.offset)

\* C5: the returned list is in non-decreasing order of distance_km.
C5_SortedByDistance ==
    ProximityAnswered =>
        \A i \in 1..(Len(resp.addresses) - 1) :
            resp.addresses[i].distance_km <= resp.addresses[i + 1].distance_km

\* C5 witness: two returned addresses of different distance_km, the
\* nearer one on the ground being the farther one in degrees, so that the
\* database returned them in the opposite order
C5_Witness ==
    /\ ProximityAnswered
    /\ \E i, j \in 1..Len(resp.addresses) :
         /\ i < j
         /\ resp.addresses[i].distance_km < resp.addresses[j].distance_km
         /\ DegDistSq(addresses[resp.addresses[i].gnaf_id].geom, SchoolPoint)
              > DegDistSq(addresses[resp.addresses[j].gnaf_id].geom, SchoolPoint)

\* C6: returned addresses of equal distance are in the order of their
\* gnaf_id.
C6_TiesOrderedById ==
    ProximityAnswered =>
        \A i \in 1..(Len(resp.addresses) - 1) :
            resp.addresses[i].distance_km = resp.addresses[i + 1].distance_km
                => resp.addresses[i].gnaf_id < resp.addresses[i + 1].gnaf_id

----------------------------------------------------------------------------
(* Properties of catchment resolution.                                     *)

\* the point (lat, lng) of the request, in millidegrees, lies strictly
\* inside polygon c
StrictlyInside(c) ==
    /\ req.lat \in FloatLiterals /\ req.lng \in FloatLiterals
    /\ c.lat_min < float(req.lat) /\ float(req.lat) < c.lat_max
    /\ c.lng_min < float(req.lng) /\ float(req.lng) < c.lng_max

\* the school of polygon c as a resolver returns it
SchoolOf(c) == [school_id |-> c.school_id, school_name |-> c.school_name,
                school_type |-> c.school_type]

ReturnedSchools == {resp.schools[i] : i \in 1..Len(resp.schools)}

\* the endpoint resolved the point of the request
WebResolved ==
    /\ req.handler = "get_schools_for_address"
    /\ req.lat \in FloatLiterals /\ req.lng \in FloatLiterals
    /\ resp.error # "Database connection failed"

\* the script function resolved the point of the request
ScriptResolved ==
    /\ req.handler = "find_school_catchment_by_coordinates"
    /\ req.lat \in FloatLiterals

\* the kind the script function resolves against
ScriptKind == ArgsGet(req.school_type, "primary")

\* C7: a point strictly inside exactly one polygon of a kind resolves to
\* the school of that polygon, and a point outside every polygon resolves
\* to no membership (count 0, or None), which is a success and not an
\* error.
C7_CatchmentResolution ==
    /\ WebResolved =>
         /\ resp.status = 200
         /\ \A c \in school_catchments :
              (/\ StrictlyInside(c)
               /\ \A d \in school_catchments :
                    (d.school_type = c.school_type /\ StrictlyInside(d)) => d = c)
              => SchoolOf(c) \in ReturnedSchools
         /\ (\A c \in school_catchments : ~StrictlyInside(c))
              => (resp.total = 0 /\ resp.schools = <<>>)
    /\ ScriptResolved =>
         /\ resp.status = 200
         /\ \A c \in school_catchments :
              (/\ c.school_type = ScriptKind
               /\ StrictlyInside(c)
               /\ \A d \in school_catchments :
                    (d.school_type = ScriptKind /\ StrictlyInside(d)) => d = c)
              => resp.schools = <<SchoolOf(c)>>
         /\ (\A c \in school_catchments : c.school_type = ScriptKind => ~StrictlyInside(c))
              => resp.schools = <<>>

\* C7 witness: the endpoint returned the one primary catchment that holds
\* the point while another primary catchment of the store does not
C7_Witness ==
    /\ WebResolved
    /\ \E c, d \in school_catchments :
         /\ c.school_type = "primary" /\ d.school_type = "primary"
         /\ StrictlyInside(c) /\ ~StrictlyInside(d)
         /\ SchoolOf(c) \in ReturnedSchools

----------------------------------------------------------------------------
(* Properties of request validation.                                       *)

\* C9: a reference point without latitude or longitude is answered with
\* 400: the proximity query for a school row with a NULL coordinate, and
\* the catchment query without lat.
C9_NullLatitudeIsInvalidQuery ==
    /\ (/\ req.handler = "get_australia_school_addresses"
        /\ req.school \in DOMAIN school_geometry
        /\ resp.error # "Database connection failed"
        /\ \/ school_geometry[req.school].latitude = NULL
           \/ school_geometry[req.school].longitude = NULL)
       => resp.status = 400
    /\ (req.handler = "get_schools_for_address" /\ req.lat = Missing)
       => resp.status = 400

\* the limit and offset strings of the request, with the defaults of the
\* endpoint for the missing ones
ReqLimit == ArgsGet(req.limit, IF req.handler = "get_school_addresses" THEN "500" ELSE "100")
ReqOffset == ArgsGet(req.offset, "0")

AddressEndpoint ==
    req.handler \in {"get_australia_school_addresses", "get_school_addresses"}

\* C10 as claimed: a malformed limit or offset, a limit <= 0 and a
\* negative offset are answered with 400.
C10_BadLimitIsInvalidQuery ==
    (/\ AddressEndpoint
     /\ resp.error # "Database connection failed"
     /\ \/ ReqLimit \notin IntLiterals
        \/ ReqOffset \notin IntLiterals
        \/ int(ReqLimit) <= 0
        \/ int(ReqOffset) < 0)
    => resp.status = 400

\* C10 amended: when limit or offset is not an integer the request is
\* executed with the default limit (100, or 500 for get_school_addresses)
\* and offset 0; integers are passed to the database as they are, where
\* limit 0 gives an empty page and a negative limit or offset makes the
\* query fail, answered with 500; none of these requests is answered 400.
C10_BadLimitDefaultsOrFails ==
    (AddressEndpoint /\ ~is_coordinate_like(ArgsGet(req.suburb, ""))) =>
        /\ resp.status # 400
        /\ (resp.status = 200 /\ (ReqLimit \notin IntLiterals \/ ReqOffset \notin IntLiterals))
             => /\ resp.limit = (IF req.handler = "get_school_addresses" THEN 500 ELSE 100)
                /\ resp.offset = 0
        /\ (resp.status = 200 /\ ReqLimit \in IntLiterals /\ ReqOffset \in IntLiterals)
             => /\ resp.limit = int(ReqLimit) /\ resp.offset = int(ReqOffset)
                /\ int(ReqLimit) >= 0 /\ int(ReqOffset) >= 0
                /\ Len(resp.addresses) <= int(ReqLimit)
        /\ (/\ ReqLimit \in IntLiterals /\ ReqOffset \in IntLiterals
            /\ (int(ReqLimit) < 0 \/ int(ReqOffset) < 0))
             => resp.status \in {404, 500}

\* C10 witness: limit=2 with a malformed offset answered with the two
\* defaults, and more than two addresses
C10_Witness ==
    /\ AddressEndpoint
    /\ req.limit = "2" /\ req.offset = "abc"
    /\ resp.status = 200 /\ resp.limit \in {100, 500} /\ resp.offset = 0
    /\ Len(resp.addresses) > 2

----------------------------------------------------------------------------
(* The geocode table and its maintenance scripts: add_geometry_columns.py, *)
(* create_spatial_index.py and drop_redundant_index.py.                    *)

\* the largest number of rows of address_default_geocode
MaxGeocode == 2

\* the coordinates a geocode row can carry, in millidegrees
GeocodeLatitudes == {NULL, -33870, -33800}

GeocodeLongitudes == {NULL, 151210}

\* the stores and the request state that the scripts do not use
WebAtRest ==
    /\ school_geometry = <<>>
    /\ addresses = <<>>
    /\ school_catchments = {}
    /\ req = NoRequest
    /\ resp = NoResponse
    /\ fault = "none"

\* the table before the geospatial setup: no row, the expression index on
\* the coordinates in place, no index on geom
InitGeocode ==
    /\ address_default_geocode = <<>>
    /\ indexes = {"idx_address_geocode_point"}
    /\ maintenance = NoMaintenance
    /\ school_profile_2025 = <<>>
    /\ psv_table = <<>>
    /\ WebAtRest
    /\ NoAccounts
    /\ ClientsAtRest

\* a geocode row is loaded: the file carries the coordinates and no geom
load_geocode ==
    /\ Len(address_default_geocode) < MaxGeocode
    /\ \E lat \in GeocodeLatitudes, lng \in GeocodeLongitudes :
         address_default_geocode' =
             Append(address_default_geocode,
                    [latitude |-> lat, longitude |-> lng, geom |-> ST_MakePoint(NULL, NULL)])
    /\ UNCHANGED <<clients, store, req, resp, fault, accounts, indexes, maintenance,
                   school_profile_2025, psv_table>>

\* the ETL collaborator sets, changes or clears the coordinates of a row
update_coordinates ==
    /\ \E i \in DOMAIN address_default_geocode :
       \E lat \in GeocodeLatitudes, lng \in GeocodeLongitudes :
         /\ <<lat, lng>> # <<address_default_geocode[i].latitude,
                             address_default_geocode[i].longitude>>
         /\ address_default_geocode' =
              [address_default_geocode EXCEPT ![i].latitude = lat, ![i].longitude = lng]
    /\ UNCHANGED <<clients, store, req, resp, fault, accounts, indexes, maintenance,
                   school_profile_2025, psv_table>>

\* UPDATE address_default_geocode SET geom = ST_SetSRID(ST_MakePoint(
\* longitude, latitude), 4326) WHERE longitude IS NOT NULL AND latitude IS
\* NOT NULL AND geom IS NULL, for one row
PopulateGeom(row) ==
    IF row.longitude # NULL /\ row.latitude # NULL /\ IsNullGeom(row.geom)
    THEN [row EXCEPT !.geom = ST_MakePoint(row.longitude, row.latitude)]
    ELSE row

\* steps 1 and 2 of add_geometry_columns: the column is added if it is
\* missing, the UPDATE runs and is committed
add_geometry_columns_populate ==
    /\ maintenance = NoMaintenance
    /\ address_default_geocode' =
         [i \in DOMAIN address_default_geocode |-> PopulateGeom(address_default_geocode[i])]
    /\ maintenance' = [script |-> "add_geometry_columns", step |-> "populated", locks |-> {}]
    /\ UNCHANGED <<clients, store, req, resp, fault, accounts, indexes, school_profile_2025, psv_table>>

\* the lock PostgreSQL takes on the table of the index for a statement and
\* holds until the transaction of the statement ends
TableLock(statement) ==
    CASE statement = "DROP INDEX"                -> "AccessExclusiveLock"
      [] statement = "CREATE INDEX"              -> "ShareLock"
      [] statement = "CREATE INDEX CONCURRENTLY" -> "ShareUpdateExclusiveLock"
      [] statement = "DROP INDEX CONCURRENTLY"   -> "ShareUpdateExclusiveLock"

\* the lock modes that conflict with the ACCESS SHARE lock of a SELECT
BlocksReaders(lock) == lock = "AccessExclusiveLock"

\* step 5, first statement, in the transaction of the connection
\* (autocommit is off): DROP INDEX IF EXISTS idx_address_default_geocode_geom
add_geometry_columns_drop_index ==
    /\ maintenance.script = "add_geometry_columns" /\ maintenance.step = "populated"
    /\ maintenance' =
         [maintenance EXCEPT
            !.step = "dropped",
            !.locks = IF "idx_address_default_geocode_geom" \in indexes
                      THEN {TableLock("DROP INDEX")} ELSE {}]
    /\ UNCHANGED <<clients, store, req, resp, fault, accounts, address_default_geocode, indexes,
                   school_profile_2025, psv_table>>

\* step 5, second statement: CREATE INDEX ... USING GIST(geom) starts to
\* build the index in the same transaction
add_geometry_columns_create_index ==
    /\ maintenance.script = "add_geometry_columns" /\ maintenance.step = "dropped"
    /\ maintenance' = [maintenance EXCEPT !.step = "building",
                                          !.locks = @ \cup {TableLock("CREATE INDEX")}]
    /\ UNCHANGED <<clients, store, req, resp, fault, accounts, address_default_geocode, indexes,
                   school_profile_2025, psv_table>>

\* step 5 ends: conn.commit() after the build, or conn.rollback() in the
\* except branch when the build raised; both release the locks
add_geometry_columns_finish ==
    /\ maintenance.script = "add_geometry_columns" /\ maintenance.step = "building"
    /\ \/ indexes' = indexes \cup {"idx_address_default_geocode_geom"}
       \/ indexes' = indexes
    /\ maintenance' = NoMaintenance
    /\ UNCHANGED <<clients, store, req, resp, fault, accounts, address_default_geocode,
                   school_profile_2025, psv_table>>

\* create_spatial_index.py, with autocommit: CREATE INDEX CONCURRENTLY IF
\* NOT EXISTS idx_address_default_geocode_geom starts to build
create_spatial_index ==
    /\ maintenance = NoMaintenance
    /\ maintenance' =
         [script |-> "create_spatial_index", step |-> "building",
          locks |-> IF "idx_address_default_geocode_geom" \in indexes
                    THEN {} ELSE {TableLock("CREATE INDEX CONCURRENTLY")}]
    /\ UNCHANGED <<clients, store, req, resp, fault, accounts, address_default_geocode, indexes,
                   school_profile_2025, psv_table>>

\* the statement of create_spatial_index.py returns: the index exists, or
\* the statement raised and the script goes on to the verification
create_spatial_index_finish ==
    /\ maintenance.script = "create_spatial_index"
    /\ \/ indexes' = indexes \cup {"idx_address_default_geocode_geom"}
       \/ indexes' = indexes
    /\ maintenance' = NoMaintenance
    /\ UNCHANGED <<clients, store, req, resp, fault, accounts, address_default_geocode,
                   school_profile_2025, psv_table>>

\* drop_redundant_index.py, with autocommit: DROP INDEX CONCURRENTLY IF
\* EXISTS idx_address_geocode_point starts
drop_redundant_index ==
    /\ maintenance = NoMaintenance
    /\ maintenance' =
         [script |-> "drop_redundant_index", step |-> "dropping",
          locks |-> IF "idx_address_geocode_point" \in indexes
                    THEN {TableLock("DROP INDEX CONCURRENTLY")} ELSE {}]
    /\ UNCHANGED <<clients, store, req, resp, fault, accounts, address_default_geocode, indexes,
                   school_profile_2025, psv_table>>

\* the statement of drop_redundant_index.py returns: the index is gone, or
\* the statement raised
drop_redundant_index_finish ==
    /\ maintenance.script = "drop_redundant_index"
    /\ \/ indexes' = indexes \ {"idx_address_geocode_point"}
       \/ indexes' = indexes
    /\ maintenance' = NoMaintenance
    /\ UNCHANGED <<clients, store, req, resp, fault, accounts, address_default_geocode,
                   school_profile_2025, psv_table>>

NextGeocode ==
    \/ load_geocode
    \/ update_coordinates
    \/ add_geometry_columns_populate
    \/ add_geometry_columns_drop_index
    \/ add_geometry_columns_create_index
    \/ add_geometry_columns_finish
    \/ create_spatial_index
    \/ create_spatial_index_finish
    \/ drop_redundant_index
    \/ drop_redundant_index_finish

SpecGeocode == InitGeocode /\ [][NextGeocode]_vars

\* the geom of a row is the point of its current coordinates
GeomMatchesCoordinates(row) ==
    /\ IsNullGeom(row.geom) <=> (row.latitude = NULL \/ row.longitude = NULL)
    /\ row.geom = ST_MakePoint(row.longitude, row.latitude)

\* C11: when add_geometry_columns has populated geom, whatever loads and
\* updates of the coordinates came before, every row of
\* address_default_geocode has a null geom if and only if its latitude or
\* longitude is null, and a non-null geom is the point of its current
\* longitude and latitude.
C11_GeomFollowsCoordinates ==
    [][add_geometry_columns_populate =>
         \A i \in DOMAIN address_default_geocode' :
             GeomMatchesCoordinates(address_default_geocode'[i])]_vars

\* C14: while an index-maintenance script runs on address_default_geocode
\* it holds no lock on the table that conflicts with the lock of a read
\* query.
C14_ReadersNeverBlocked ==
    \A lock \in maintenance.locks : ~BlocksReaders(lock)

----------------------------------------------------------------------------
(* The school tables: import_school_profile_2025.py,                       *)
(* import_school_location.py, regenerate_school_geometry.py, and the       *)
(* handler get_australia_school_info that reads the regenerated table.     *)

ProfileIds == {"41319", "41320"}

\* the coordinates a school can have, in millidegrees
ProfileLatitudes == {NULL, 0, -33870, -60000, -80000}

ProfileLongitudes == {NULL, 151210}

\* metres of EPSG:3857 per degree of longitude: pi * 6378137 / 180
MetresPerDegree3857 == 111319

\* the northing of EPSG:3857 for a latitude in millidegrees:
\* 6378137 * ln(tan(pi/4 + lat/2)), in metres
MercatorY(lat) ==
    CASE lat = 0      -> 0
      [] lat = -33870 -> -4011360
      [] lat = -60000 -> -8399738
      [] lat = -80000 -> -15538711

\* ST_Transform(ST_Point(longitude, latitude, 4326), 3857)
ST_Transform3857(point) ==
    [x |-> (point.x \div 1000) * MetresPerDegree3857
             + ((point.x % 1000) * MetresPerDegree3857) \div 1000,
     y |-> MercatorY(point.y)]

\* a NULL polygon
NullBuffer == [x |-> NULL, y |-> NULL, radius |-> NULL, latitude |-> NULL]

\* ST_Buffer(centre, radius) in EPSG:3857: the disk around centre; the
\* disk keeps the latitude of its centre, which gives the scale of the
\* projection there
ST_Buffer(centre, radius, latitude) ==
    [x |-> centre.x, y |-> centre.y, radius |-> radius, latitude |-> latitude]

\* the row of school_geometry that the CREATE TABLE ... AS SELECT of
\* regenerate_school_geometry makes of a school_profile_2025 row
school_geometry_row(pf) ==
    LET geom_5km_buffer ==
            IF pf.latitude # NULL /\ pf.longitude # NULL
            THEN ST_Buffer(ST_Transform3857(ST_MakePoint(pf.longitude, pf.latitude)),
                           5000, pf.latitude)
            ELSE NullBuffer
    IN  [latitude        |-> pf.latitude,
         longitude       |-> pf.longitude,
         geom_5km_buffer |-> geom_5km_buffer,
         has_geom_buffer |-> IF geom_5km_buffer # NullBuffer THEN "Y" ELSE "N"]

\* the tables before the school data is imported
InitSchoolGeometry ==
    /\ school_profile_2025 = <<>>
    /\ school_geometry = <<>>
    /\ addresses = <<>>
    /\ school_catchments = {}
    /\ req = NoRequest
    /\ resp = NoResponse
    /\ fault = "none"
    /\ address_default_geocode = <<>>
    /\ indexes = {}
    /\ maintenance = NoMaintenance
    /\ psv_table = <<>>
    /\ NoAccounts
    /\ ClientsAtRest

\* load_school_profile_data: TRUNCATE and INSERT of the profile rows of
\* the file; the file carries no coordinates
load_school_profile_data ==
    /\ Idle
    /\ \E ids \in SUBSET ProfileIds :
         school_profile_2025' = [id \in ids |-> [latitude |-> NULL, longitude |-> NULL]]
    /\ UNCHANGED <<clients, school_geometry, addresses, school_catchments, req, resp, fault, accounts,
                   address_default_geocode, indexes, maintenance, psv_table>>

\* update_school_profile_coordinates: the UPDATE that copies the
\* coordinates of school_location into the profile rows
update_school_profile_coordinates ==
    /\ Idle
    /\ school_profile_2025 # <<>>
    /\ school_profile_2025' \in
         [DOMAIN school_profile_2025 ->
            [latitude : ProfileLatitudes, longitude : ProfileLongitudes]]
    /\ UNCHANGED <<clients, school_geometry, addresses, school_catchments, req, resp, fault, accounts,
                   address_default_geocode, indexes, maintenance, psv_table>>

\* regenerate_school_geometry: DROP TABLE, CREATE TABLE AS SELECT
regenerate_school_geometry ==
    /\ Idle
    /\ school_geometry' =
         [id \in DOMAIN school_profile_2025 |-> school_geometry_row(school_profile_2025[id])]
    /\ UNCHANGED <<clients, school_profile_2025, addresses, school_catchments, req, resp, fault,
                   accounts, address_default_geocode, indexes, maintenance, psv_table>>

\* ST_AsGeoJSON(ST_Transform(geom_5km_buffer, 4326)): NULL for a NULL
\* buffer, else the text of the polygon
geom_5km_buffer_json(buffer) == IF buffer = NullBuffer THEN "" ELSE "Polygon"

\* a handler that parses the GeoJSON text of every row: json.loads(None)
\* raises TypeError inside the try block
AustraliaSchoolInfoUnguarded(acara_sml_id, connected) ==
    IF ~connected
    THEN ErrorResponse(500, "Database connection failed")
    ELSE IF acara_sml_id \notin DOMAIN school_geometry
    THEN ErrorResponse(404, "School not found")
    ELSE LET school == school_geometry[acara_sml_id]
         IN  IF geom_5km_buffer_json(school.geom_5km_buffer) = ""
             THEN ErrorResponse(500, "Database query failed")
             ELSE [NoResponse EXCEPT
                     !.status = 200,
                     !.info = << [acara_sml_id    |-> acara_sml_id,
                                  geom_5km_buffer |-> "Feature"] >>]

\* the response of get_australia_school_info: geom_5km_buffer is None
\* unless the row has a buffer, which is wrapped in a GeoJSON Feature
AustraliaSchoolInfo(acara_sml_id, connected) ==
    IF ~connected
    THEN ErrorResponse(500, "Database connection failed")
    ELSE IF acara_sml_id \notin DOMAIN school_geometry
    THEN ErrorResponse(404, "School not found")
    ELSE LET school == school_geometry[acara_sml_id]
         IN  [NoResponse EXCEPT
                !.status = 200,
                !.info = << [acara_sml_id    |-> acara_sml_id,
                             geom_5km_buffer |->
                                 IF geom_5km_buffer_json(school.geom_5km_buffer) # ""
                                 THEN "Feature" ELSE "None"] >>]

get_australia_school_info ==
    /\ Idle
    /\ \E acara_sml_id \in ProfileIds, connected \in BOOLEAN :
        /\ req' = [NoRequest EXCEPT !.handler = "get_australia_school_info",
                                    !.school = acara_sml_id]
        /\ resp' = AustraliaSchoolInfo(acara_sml_id, connected)
        /\ fault' = IF connected THEN "none" ELSE "connect"
    /\ UNCHANGED <<clients, store, offline, accounts>>

NextSchoolGeometry ==
    \/ load_school_profile_data
    \/ update_school_profile_coordinates
    \/ regenerate_school_geometry
    \/ get_australia_school_info
    \/ Return

SpecSchoolGeometry == InitSchoolGeometry /\ [][NextSchoolGeometry]_vars

\* the school of the row has no latitude or no longitude
Unlocated(row) == row.latitude = NULL \/ row.longitude = NULL

\* C12: in the regenerated school_geometry table geom_5km_buffer is null
\* exactly for the schools whose latitude or longitude is null, and
\* has_geom_buffer is 'N' exactly for them; get_australia_school_info
\* answers a request for such a school, with the database up, with status
\* 200 and geom_5km_buffer null.
C12_NullBufferIsNotAnError ==
    /\ \A id \in DOMAIN school_geometry :
         /\ (school_geometry[id].geom_5km_buffer = NullBuffer) <=> Unlocated(school_geometry[id])
         /\ (school_geometry[id].has_geom_buffer = "N") <=> Unlocated(school_geometry[id])
    /\ ( /\ req.handler = "get_australia_school_info"
         /\ fault = "none"
         /\ req.school \in DOMAIN school_geometry
         /\ Unlocated(school_geometry[req.school]) )
       => /\ resp.status = 200
          /\ resp.info[1].geom_5km_buffer = "None"

\* C12 witness: the info of a school without latitude was requested while
\* the table also holds a school with a buffer
C12_Witness ==
    /\ req.handler = "get_australia_school_info"
    /\ fault = "none"
    /\ req.school \in DOMAIN school_geometry
    /\ school_geometry[req.school].latitude = NULL
    /\ school_geometry[req.school].longitude # NULL
    /\ resp.status = 200
    /\ \E id \in DOMAIN school_geometry : school_geometry[id].has_geom_buffer = "Y"

\* the cosine of a latitude in millidegrees, in thousandths: the ground
\* length of one metre of EPSG:3857 at that latitude, in millimetres
CosPerMille(lat) ==
    CASE lat = 0      -> 1000
      [] lat = -33870 -> 830
      [] lat = -60000 -> 500
      [] lat = -80000 -> 174

\* the ground distance in metres from the centre of a buffer to its
\* boundary
GroundRadius(buffer) == (buffer.radius * CosPerMille(buffer.latitude)) \div 1000

\* C18: the 5 km buffer of a school is a disk centred on the school point
\* whose boundary is 5 km from the school on the ground within 0.1 %,
\* that is within 5 m, at every latitude.
C18_BufferIsFiveKmOnGround ==
    \A id \in DOMAIN school_geometry :
        LET row == school_geometry[id]
        IN  row.geom_5km_buffer # NullBuffer =>
              /\ [x |-> row.geom_5km_buffer.x, y |-> row.geom_5km_buffer.y]
                   = ST_Transform3857(ST_MakePoint(row.longitude, row.latitude))
              /\ GroundRadius(row.geom_5km_buffer) >= 5000 - 5
              /\ GroundRadius(row.geom_5km_buffer) <= 5000 + 5

----------------------------------------------------------------------------
(* The PSV loader: load_psv_to_postgres.py.                                *)

\* the largest number of rows of the loaded table
MaxTableRows == 4

\* the PSV files: their rows, named by primary identifier, in file order
PsvFiles == { <<"pid1">>, <<"pid2">>, <<"pid3">>, <<"pid1", "pid2">>, <<"pid2", "pid3">> }

\* s holds some row twice
HasDuplicates(s) == \E i, j \in DOMAIN s : i # j /\ s[i] = s[j]

\* an empty matched table, with or without a unique constraint on the
\* identifier; no file loaded yet
InitLoader ==
    /\ psv_table \in { [unique |-> u, rows |-> <<>>, file |-> <<>>, result |-> "none"] :
                       u \in BOOLEAN }
    /\ address_default_geocode = <<>>
    /\ indexes = {}
    /\ maintenance = NoMaintenance
    /\ school_profile_2025 = <<>>
    /\ WebAtRest
    /\ NoAccounts
    /\ ClientsAtRest

\* load_psv_file: COPY of the rows of the file into the table, with the
\* batch INSERT as fallback; a unique violation fails both, the load is
\* rolled back and the function returns False
load_psv_file(table, file) ==
    IF table.unique /\ HasDuplicates(table.rows \o file)
    THEN [table EXCEPT !.file = file, !.result = "failed"]
    ELSE [table EXCEPT !.rows = @ \o file, !.file = file, !.result = "loaded"]

\* the loop body of main for one file: the table is matched and the file
\* is loaded; the call of truncate_table is commented out ("TRUNCATE
\* DISABLED - Data will be appended to existing table")
main ==
    /\ \E file \in PsvFiles :
         /\ Len(psv_table.rows) + Len(file) <= MaxTableRows
         /\ psv_table' = load_psv_file(psv_table, file)
    /\ UNCHANGED <<clients, store, req, resp, fault, accounts, address_default_geocode, indexes,
                   maintenance, school_profile_2025>>

NextLoader == main

SpecLoader == InitLoader /\ [][NextLoader]_vars

\* C20: after a successful load the table holds exactly the rows of the
\* file that was loaded, because the loader truncates the table first; so
\* loading a file twice leaves what loading it once leaves.
C20_TableHoldsTheFile ==
    psv_table.result = "loaded" => psv_table.rows = psv_table.file

----------------------------------------------------------------------------
(* Outcomes of the two address endpoints under Spec.                       *)

\* the school of the request has a row in the table the handler looks it
\* up in
SchoolKnown ==
    IF req.handler = "get_australia_school_addresses"
    THEN req.school \in DOMAIN school_geometry
    ELSE \E c \in school_catchments : c.school_id = req.school

\* the request is one the handler can answer: the suburb is not a
\* coordinate and the database is up and answers every query
Answerable ==
    /\ AddressEndpoint
    /\ fault = "none"
    /\ ~is_coordinate_like(ArgsGet(req.suburb, ""))

\* limit and offset, as parsed, are values the database accepts
PageAccepted ==
    (ReqLimit \in IntLiterals /\ ReqOffset \in IntLiterals)
        => (int(ReqLimit) >= 0 /\ int(ReqOffset) >= 0)

\* no address passes the spatial and the attribute filter of the request;
\* FALSE when the school has no reference point to filter by
NoAddressMatches ==
    IF req.handler = "get_australia_school_addresses"
    THEN /\ school_geometry[req.school].latitude # NULL
         /\ school_geometry[req.school].longitude # NULL
         /\ \A id \in DOMAIN addresses :
              ~( /\ ~IsNullGeom(addresses[id].geom)
                 /\ ST_DWithin(addresses[id].geom, SchoolPoint, PrefilterRadius)
                 /\ ILikeContains(addresses[id].locality_name, ArgsGet(req.suburb, "")) )
    ELSE \A id \in DOMAIN addresses :
              ~( /\ ~IsNullGeom(addresses[id].geom)
                 /\ \E c \in school_catchments :
                      c.school_id = req.school /\ ST_Contains(c, addresses[id].geom)
                 /\ ILikeContains(addresses[id].locality_name, ArgsGet(req.suburb, "")) )

\* C15: a request to get_australia_school_addresses or get_school_addresses
\* that the handler can answer gets 404 if and only if the school has no
\* row; for a known school and a page the database accepts, when no
\* address passes the filters the answer is 200 with an empty address
\* list.
C15_NotFoundOnlyForUnknownSchool ==
    Answerable =>
        /\ resp.status = 404 <=> ~SchoolKnown
        /\ (SchoolKnown /\ PageAccepted /\ NoAddressMatches)
             => (resp.status = 200 /\ resp.addresses = <<>> /\ resp.total = 0)

\* C15 witness: the catchment of a known school holds no address in the
\* suburb asked for, while the store has addresses elsewhere
C15_Witness ==
    /\ Answerable /\ SchoolKnown /\ NoAddressMatches
    /\ req.handler = "get_school_addresses"
    /\ \E id \in DOMAIN addresses : ~IsNullGeom(addresses[id].geom)
    /\ resp.status = 200 /\ resp.addresses = <<>>

\* C16: when the connection cannot be opened or the school lookup, the
\* page query or the count query of an address request fails, the answer
\* is the error 500 with no address, no total and no paging data; and no
\* answer other than 200 carries addresses or a total.
C16_FailureCarriesNoData ==
    AddressEndpoint =>
        /\ fault # "none" => resp.status = 500
        /\ resp.status # 200 =>
             /\ resp.error # ""
             /\ resp.addresses = <<>>
             /\ resp.total = 0
             /\ ~resp.has_more

\* C16 witness: the count query failed after the page query had found
\* addresses near the school
C16_Witness ==
    /\ req.handler = "get_australia_school_addresses"
    /\ fault = "count"
    /\ resp.status = 500
    /\ \E id \in DOMAIN addresses :
         /\ ~IsNullGeom(addresses[id].geom)
         /\ ST_DWithin(addresses[id].geom, SchoolPoint, PrefilterRadius)

----------------------------------------------------------------------------
(* The routes of the web application: the view functions behind their      *)
(* decorators, the session of Flask-Login and the accounts.                *)

\* the largest number of usage_tracking rows
MaxUsage == 2

UserIds == {"1"}

\* the user ids a session cookie can carry: a user, or an id that has no row
CookieIds == {"1", "7"}

\* a row of webapp.users joined to its subscription tier, as create_user
\* makes it: Free tier, never logged in
NewUser(is_active) ==
    [is_active |-> is_active, tier_name |-> "Free", subscription_status |-> "active",
     last_login |-> "never"]

\* the routes under /api/address/schools, /api/autocomplete/schools,
\* /api/autocomplete/australia-schools, /api/school/ and
\* /api/australia-school/
SchoolRoutes ==
    {"get_schools_for_address", "autocomplete_schools", "autocomplete_australia_schools",
     "get_australia_school_info", "get_australia_school_addresses",
     "autocomplete_australia_school_streets", "autocomplete_australia_school_suburbs",
     "autocomplete_australia_school_postcodes",
     "autocomplete_school_streets", "autocomplete_school_suburbs",
     "autocomplete_school_postcodes",
     "get_school_info", "get_school_addresses", "get_school_boundary",
     "lookup_school_by_id", "get_school_profile", "search_school_by_name"}

PremiumRoutes == {"export_suburbs", "premium_analytics"}

Routes == SchoolRoutes \cup PremiumRoutes

\* the address endpoints wrapped in track_api_usage
TrackedRoutesAddresses == {"get_australia_school_addresses", "get_school_addresses"}

\* the routes wrapped in track_api_usage: the decorator is defined and
\* applied to no view function
TrackedRoutes == {}

\* the boundary route left without login_required
DecoratorsOpen(route) ==
    IF route = "get_school_boundary" THEN {} ELSE {"login_required"}

\* the decorators between @app.route and the view function of a route
Decorators(route) ==
    {"login_required"} \cup (IF route \in TrackedRoutes THEN {"track_api_usage"} ELSE {})

\* load_user(user_id): no user when the connection fails, when the id has
\* no row or when the row is not active (get_by_id: WHERE u.user_id = %s
\* AND u.is_active = TRUE); <<>> stands for None
load_user(user_id, connected) ==
    IF connected /\ user_id \in DOMAIN users /\ users[user_id].is_active
    THEN <<users[user_id]>>
    ELSE <<>>

\* current_user of Flask-Login: the user of the session cookie, loaded by
\* load_user for the request; <<>> stands for the anonymous user
current_user(connected) ==
    IF session = Missing THEN <<>> ELSE load_user(session, connected)

\* a premium test on the tier alone
is_premium_tier_only(user) == user.tier_name = "Premium"

\* User.is_premium
is_premium(user) == user.tier_name = "Premium" /\ user.subscription_status = "active"

\* q parameters of fewer than 3 characters
ShortQueries == {"", "al"}

\* the names of the schools of a large district, in alphabetical order
CollegeNames ==
    <<"Zeta College 01", "Zeta College 02", "Zeta College 03", "Zeta College 04",
      "Zeta College 05", "Zeta College 06", "Zeta College 07", "Zeta College 08",
      "Zeta College 09", "Zeta College 10", "Zeta College 11", "Zeta College 12",
      "Zeta College 13", "Zeta College 14", "Zeta College 15", "Zeta College 16",
      "Zeta College 17", "Zeta College 18", "Zeta College 19", "Zeta College 20",
      "Zeta College 21">>

IsCollegeName(name) == \E i \in DOMAIN CollegeNames : CollegeNames[i] = name

\* UPPER(school_name) = UPPER(q), for the names of the store and the q
\* parameters the model sends
NameEquals(name, q) == <<name, q>> \in { <<"Alpha Public School", "alpha public school">> }

\* UPPER(school_name) LIKE UPPER(q) || '%'
NameStartsWith(name, q) ==
    \/ NameEquals(name, q)
    \/ <<name, q>> \in { <<"Alpha Public School", "alpha">>, <<"Beta High School", "beta">> }
    \/ q = "zeta" /\ IsCollegeName(name)

\* UPPER(school_name) LIKE '%' || UPPER(q) || '%'
NameContains(name, q) ==
    \/ NameStartsWith(name, q)
    \/ <<name, q>> \in { <<"Alpha Public School", "public">>,
                         <<"Gamma Public School", "public">> }
    \/ q = "school" /\ ~IsCollegeName(name)
    \/ q = "college" /\ IsCollegeName(name)

\* the place of a school name in ORDER BY school_name
SchoolNameRank(school_name) ==
    IF IsCollegeName(school_name)
    THEN 4 + (CHOOSE i \in DOMAIN CollegeNames : CollegeNames[i] = school_name)
    ELSE NameRank(school_name)

\* school_type.upper() of the type parameter
upper(school_type) ==
    CASE school_type \in {"primary", "PRIMARY"}     -> "PRIMARY"
      [] school_type \in {"secondary", "SECONDARY"} -> "SECONDARY"
      [] school_type \in {"future", "FUTURE"}       -> "FUTURE"
      [] school_type \in {"all", "ALL"}             -> "ALL"
      [] OTHER                                      -> school_type

\* the catchment rows that pass type_filter: every row when the type
\* parameter is empty or ALL, else the rows whose school_type column is
\* the upper-cased parameter (the column holds PRIMARY, SECONDARY, FUTURE)
TypeFilter(school_type) ==
    IF school_type = "" \/ upper(school_type) = "ALL"
    THEN school_catchments
    ELSE {c \in school_catchments : upper(c.school_type) = upper(school_type)}

\* the rows of a query over the catchments S in the orders its ORDER BY
\* allows: the rows are keyed by key, rows with equal keys come in any order
QueryRows(S, key) ==
    LET rows == { [school_id |-> c.school_id, school_name |-> c.school_name,
                   school_type |-> c.school_type] : c \in S }
        rank == [r \in rows |-> key[r.school_name]]
    IN  IF \A r, t \in rows : rank[r] = rank[t] => r = t
        THEN {[i \in 1..Cardinality(rows) |->
                 CHOOSE r \in rows : Cardinality({t \in rows : rank[t] < rank[r]}) = i - 1]}
        ELSE OrderedBy(rows, rank)

\* the rows of an autocomplete_schools query for a set of catchments, in
\* the orders ORDER BY school_name allows
SchoolNameRows(S) ==
    QueryRows(S, [n \in {c.school_name : c \in S} |-> SchoolNameRank(n)])

\* the rows of the exact query, which has no ORDER BY
UnorderedRows(S) == QueryRows(S, [n \in {c.school_name : c \in S} |-> 0])

\* LIMIT 20 of the prefix and the substring query
AutocompleteLimit == 20

\* the first rows of a result, up to LIMIT
Limit(rows, limit) == SubSeq(rows, 1, IF Len(rows) < limit THEN Len(rows) ELSE limit)

\* one query for every kind of match: the names that contain q
AutocompleteSchoolsAnyMatch(args, connected) ==
    LET query == ArgsGet(args.q, "")
        typed == TypeFilter(ArgsGet(args.school_type, ""))
        substring == {c \in typed : NameContains(c.school_name, query)}
    IN  IF query \in ShortQueries
        THEN {[NoResponse EXCEPT !.status = 200]}
        ELSE IF ~connected
        THEN {ErrorResponse(500, "Database connection failed")}
        ELSE { [NoResponse EXCEPT !.status = 200, !.schools = schools] :
               schools \in SchoolNameRows(substring) }

\* autocomplete_schools: the exact matches, else the first 20 names that
\* start with q, else the first 20 names that contain q
AutocompleteSchools(args, connected) ==
    LET query == ArgsGet(args.q, "")
        typed == TypeFilter(ArgsGet(args.school_type, ""))
        exact == {c \in typed : NameEquals(c.school_name, query)}
        prefix == {c \in typed : NameStartsWith(c.school_name, query)}
        substring == {c \in typed : NameContains(c.school_name, query)}
    IN  IF query \in ShortQueries
        THEN {[NoResponse EXCEPT !.status = 200]}
        ELSE IF ~connected
        THEN {ErrorResponse(500, "Database connection failed")}
        ELSE IF exact # {}
        THEN { [NoResponse EXCEPT !.status = 200, !.schools = schools] :
               schools \in UnorderedRows(exact) }
        ELSE { [NoResponse EXCEPT !.status = 200,
                                  !.schools = Limit(schools, AutocompleteLimit)] :
               schools \in SchoolNameRows(IF prefix # {} THEN prefix ELSE substring) }

\* autocomplete_australia_schools: the store names no school of
\* school_geometry "alpha", "beta" or "public", so nothing matches
AutocompleteAustraliaSchools(args, connected) ==
    IF ArgsGet(args.q, "") \in ShortQueries
    THEN {[NoResponse EXCEPT !.status = 200]}
    ELSE IF ~connected
    THEN {ErrorResponse(500, "Database connection failed")}
    ELSE {[NoResponse EXCEPT !.status = 200]}

\* get_school_boundary: the GeoJSON of a catchment row of the school
SchoolBoundary(school_id, connected) ==
    IF ~connected
    THEN {ErrorResponse(500, "Database connection failed")}
    ELSE IF SchoolCatchment(school_id) = {}
    THEN {ErrorResponse(404, "School boundary not found")}
    ELSE { [NoResponse EXCEPT !.status = 200,
                              !.info = << [school_name |-> c.school_name,
                                           school_type |-> c.school_type,
                                           geojson |-> "Polygon"] >>] :
           c \in SchoolCatchment(school_id) }

\* lookup_school_by_id: psycopg2.connect raises when the database is down;
\* the store holds no school_type_lookup row
LookupSchoolById(connected) ==
    IF ~connected THEN ErrorResponse(500, "Database error")
    ELSE ErrorResponse(404, "School not found")

\* export_suburbs for a user: the CSV of gnaf.suburb_postcode
ExportSuburbs(user, connected) ==
    IF ~is_premium(user) THEN ErrorResponse(403, "Premium subscription required")
    ELSE IF ~connected THEN ErrorResponse(500, "Database connection failed")
    ELSE [NoResponse EXCEPT !.status = 200, !.info = << [csv |-> "suburb,postcode,state"] >>]

\* premium_analytics for a user
PremiumAnalytics(user, args, connected) ==
    IF ~is_premium(user) THEN ErrorResponse(403, "Premium subscription required")
    ELSE IF ArgsGet(args.suburb, "") = ""
    THEN ErrorResponse(400, "suburb or postcode parameter required")
    ELSE IF ~connected THEN ErrorResponse(500, "Database connection failed")
    ELSE [NoResponse EXCEPT !.status = 200, !.info = << [premium_feature |-> TRUE] >>]

\* the answers of the other school routes, whose tables the model does
\* not hold: connection failure, not found, or the data
OtherSchoolView(connected) ==
    IF ~connected THEN {ErrorResponse(500, "Database connection failed")}
    ELSE {ErrorResponse(404, "School not found"),
          [NoResponse EXCEPT !.status = 200, !.info = << [school |-> "data"] >>]}

\* the answers of the view function of a route to the request rq of user
View(route, rq, user, connected) ==
    CASE route = "get_australia_school_addresses" ->
           AustraliaSchoolAddresses(rq.school, rq, connected)
      [] route = "get_school_addresses" ->
           { SchoolAddresses(rq.school, rq, connected, location) :
               location \in IF SchoolCatchment(rq.school) = {}
                            THEN {[school_lat |-> NULL, school_lng |-> NULL]}
                            ELSE SchoolCatchment(rq.school) }
      [] route = "get_schools_for_address" -> SchoolsForAddress(rq, connected)
      [] route = "get_australia_school_info" -> {AustraliaSchoolInfo(rq.school, connected)}
      [] route = "get_school_boundary" -> SchoolBoundary(rq.school, connected)
      [] route = "autocomplete_schools" -> AutocompleteSchools(rq, connected)
      [] route = "autocomplete_australia_schools" -> AutocompleteAustraliaSchools(rq, connected)
      [] route = "lookup_school_by_id" -> {LookupSchoolById(connected)}
      [] route = "export_suburbs" ->
           IF user = <<>> THEN {ErrorResponse(500, "Internal server error")}
           ELSE {ExportSuburbs(user[1], connected)}
      [] route = "premium_analytics" ->
           IF user = <<>> THEN {ErrorResponse(500, "Internal server error")}
           ELSE {PremiumAnalytics(user[1], rq, connected)}
      [] OTHER -> OtherSchoolView(connected)

\* the view function reaches its call of get_db_connection (or of
\* psycopg2.connect) while it answers rq: it does not return before
ViewOpensConnection(route, rq, user) ==
    CASE route \in {"get_australia_school_addresses", "get_school_addresses"} ->
           ~is_coordinate_like(ArgsGet(rq.suburb, ""))
      [] route = "get_schools_for_address" ->
           ArgsGet(rq.lat, "") \in FloatLiterals /\ ArgsGet(rq.lng, "") \in FloatLiterals
      [] route \in {"autocomplete_schools", "autocomplete_australia_schools"} ->
           ArgsGet(rq.q, "") \notin ShortQueries
      [] route = "export_suburbs" -> user # <<>> /\ is_premium(user[1])
      [] route = "premium_analytics" ->
           user # <<>> /\ is_premium(user[1]) /\ ArgsGet(rq.suburb, "") # ""
      [] OTHER -> TRUE

\* the requests the model sends to a route
RouteRequests(route) ==
    LET base == [NoRequest EXCEPT !.handler = route]
    IN  CASE route = "get_australia_school_addresses" ->
               { [base EXCEPT !.school = "41319", !.suburb = s] : s \in {Missing, "151.2"} }
          [] route \in {"get_school_addresses", "get_school_boundary"} ->
               { [base EXCEPT !.school = id] : id \in {"2060", "9999"} }
          [] route = "get_schools_for_address" ->
               { [base EXCEPT !.lat = a, !.lng = "151.1"] : a \in {Missing, "-33.9"} }
          [] route = "get_australia_school_info" ->
               { [base EXCEPT !.school = id] : id \in {"41319", "41320"} }
          [] route \in {"autocomplete_schools", "autocomplete_australia_schools"} ->
               { [base EXCEPT !.q = q] : q \in {Missing, "al", "alpha", "public"} }
          [] route = "premium_analytics" ->
               { [base EXCEPT !.suburb = s] : s \in {Missing, "east"} }
          [] OTHER -> {base}

\* the store behind the routes: one school in Sydney with its buffer,
\* addresses 0.040 degree east of it, every catchment; one account
InitRoutes ==
    /\ school_geometry =
         [i \in AcaraIds |-> school_geometry_row([latitude |-> -33870, longitude |-> 151210])]
    /\ addresses =
         [i \in 1..MaxAddr |->
            AddressRow([latitude |-> -33870, longitude |-> 151210],
                       [east |-> 40, north |-> 0, locality_name |-> "EASTWOOD"], FALSE)]
    /\ school_catchments = CatchmentPolygons
    /\ req = NoRequest
    /\ resp = NoResponse
    /\ fault = "none"
    /\ OfflineAtRest
    /\ users \in {[id \in UserIds |-> NewUser(a)] : a \in BOOLEAN}
    /\ session \in {Missing} \cup CookieIds
    /\ db_log = <<>>
    /\ usage_tracking = 0
    /\ ClientsAtRest

\* POST /login with the password of the account: get_by_email finds
\* active users only; last_login is updated and the session is opened
login ==
    /\ Idle
    /\ \E user_id \in UserIds, connected \in BOOLEAN :
        /\ req' = [NoRequest EXCEPT !.handler = "login", !.q = user_id]
        /\ IF ~connected
           THEN /\ resp' = ErrorResponse(500, "Database connection failed")
                /\ UNCHANGED <<users, session>>
           ELSE IF ~users[user_id].is_active
           THEN /\ resp' = ErrorResponse(401, "Invalid email or password")
                /\ UNCHANGED <<users, session>>
           ELSE /\ resp' = [NoResponse EXCEPT !.status = 200]
                /\ users' = [users EXCEPT ![user_id].last_login = "set"]
                /\ session' = user_id
        /\ fault' = IF connected THEN "none" ELSE "connect"
        /\ db_log' = <<"view">>
    /\ UNCHANGED <<clients, store, offline, usage_tracking>>

\* GET /logout, behind login_required: logout_user() closes the session
logout ==
    /\ Idle
    /\ \E connected \in BOOLEAN :
        /\ req' = [NoRequest EXCEPT !.handler = "logout"]
        /\ resp' = [NoResponse EXCEPT !.status = 302]
        /\ session' = IF current_user(connected) = <<>> THEN session ELSE Missing
        /\ fault' = IF session # Missing /\ ~connected THEN "load_user" ELSE "none"
        /\ db_log' = IF session = Missing THEN <<>> ELSE <<"load_user">>
    /\ UNCHANGED <<clients, store, offline, users, usage_tracking>>

\* the Stripe webhook changes the subscription of an account: checkout
\* completed, subscription updated to a status, subscription deleted
stripe_webhook ==
    /\ Idle
    /\ \E user_id \in UserIds :
         \/ users' = [users EXCEPT ![user_id].tier_name = "Premium",
                                   ![user_id].subscription_status = "active"]
         \/ \E status \in {"active", "past_due"} :
              users' = [users EXCEPT ![user_id].subscription_status = status]
         \/ users' = [users EXCEPT ![user_id].tier_name = "Free",
                                   ![user_id].subscription_status = "cancelled"]
    /\ UNCHANGED <<clients, store, offline, req, resp, fault, session, db_log, usage_tracking>>

\* a GET request to a school or premium route goes through the decorators
\* of the route to its view function.  login_required answers a request
\* whose current_user is anonymous with the redirect to the login page
\* and does not call the view; track_api_usage, where it wraps the view,
\* opens a connection and inserts a usage_tracking row after the view.
dispatch_request ==
    /\ Idle
    /\ \E route \in Routes, loaded \in BOOLEAN, connected \in BOOLEAN :
       \E rq \in RouteRequests(route) :
         LET user == current_user(loaded)
             refused == "login_required" \in Decorators(route) /\ user = <<>>
             tracked == /\ "track_api_usage" \in Decorators(route)
                        /\ ~refused /\ connected /\ usage_tracking < MaxUsage
         IN  /\ req' = rq
             /\ IF refused
                THEN resp' = [NoResponse EXCEPT !.status = 302]
                ELSE resp' \in View(route, rq, user, connected)
             /\ db_log' = (IF session = Missing THEN <<>> ELSE <<"load_user">>)
                          \o (IF ~refused /\ ViewOpensConnection(route, rq, user)
                              THEN <<"view">> ELSE <<>>)
             /\ fault' = IF session # Missing /\ ~loaded THEN "load_user"
                         ELSE IF resp'.error \in {"Database connection failed", "Database error"}
                         THEN "connect" ELSE "none"
             /\ usage_tracking' = IF tracked THEN usage_tracking + 1 ELSE usage_tracking
    /\ UNCHANGED <<clients, store, offline, users, session>>

NextRoutes ==
    \/ login
    \/ logout
    \/ stripe_webhook
    \/ dispatch_request
    \/ Return

SpecRoutes == InitRoutes /\ [][NextRoutes]_vars

\* the session is that of an active user
Authenticated == session \in DOMAIN users /\ users[session].is_active

\* the response carries no data of the store
NoData ==
    /\ resp.addresses = <<>> /\ resp.schools = <<>> /\ resp.info = <<>> /\ resp.total = 0

\* the endpoints of the proximity and catchment queries
QueryEndpoints ==
    {"get_australia_school_addresses", "get_school_addresses", "get_schools_for_address",
     "get_school_boundary", "get_australia_school_info",
     "autocomplete_schools", "autocomplete_australia_schools"}

\* C13: a request to a proximity or catchment query endpoint leaves every
\* stored table as it was, whatever its answer: the school, address and
\* catchment tables, the ETL tables and indexes, the accounts and the
\* usage rows.
C13_QueriesLeaveTablesUnchanged ==
    [][req'.handler \in QueryEndpoints =>
         UNCHANGED <<store, address_default_geocode, indexes, school_profile_2025,
                     psv_table, users, usage_tracking>>]_vars

\* C13 witness: an address endpoint has answered with addresses, and
\* another has answered with an error
C13_Witness ==
    \/ req.handler = "get_australia_school_addresses" /\ resp.status = 200
                                                      /\ resp.addresses # <<>>
    \/ req.handler = "get_school_boundary" /\ resp.status = 404

\* C17: a school or catchment route runs its view function, and with it
\* the view's database connection, only for a session of an active user;
\* any other request is redirected to the login page and gets no data.
C17_SchoolRoutesNeedLogin ==
    (req.handler \in SchoolRoutes /\ ~Authenticated) =>
        /\ resp.status = 302
        /\ NoData
        /\ \A i \in DOMAIN db_log : db_log[i] # "view"

\* C17 witness: a request with the session of a deactivated user was
\* redirected after the user loader had looked the user up
C17_Witness ==
    /\ req.handler = "get_school_boundary"
    /\ session \in DOMAIN users /\ ~users[session].is_active
    /\ resp.status = 302
    /\ db_log = <<"load_user">>

\* the session user, loaded for the request, is premium
PremiumNow ==
    /\ Authenticated
    /\ users[session].tier_name = "Premium"
    /\ users[session].subscription_status = "active"

\* C19: export_suburbs and premium_analytics answer with data only when
\* the user of the session has tier_name 'Premium' and subscription_status
\* 'active' at the time of the request; any other logged-in user gets 403
\* and the view opens no database connection for them (the only query is
\* the user loader's).
C19_PremiumOnly ==
    req.handler \in PremiumRoutes =>
        /\ resp.info # <<>> => PremiumNow
        /\ (Authenticated /\ fault # "load_user" /\ ~PremiumNow) =>
             /\ resp.status = 403
             /\ NoData
             /\ db_log = <<"load_user">>

\* C19 witness: a Premium user whose subscription is past due asked for
\* the export and got 403
C19_Witness ==
    /\ req.handler = "export_suburbs"
    /\ Authenticated
    /\ users[session].tier_name = "Premium"
    /\ users[session].subscription_status = "past_due"
    /\ resp.status = 403

----------------------------------------------------------------------------
(* The count and the paging of get_school_addresses.                       *)

\* the addresses the page query of the answered request returns with an
\* unbounded LIMIT and OFFSET 0
AllPageAddresses == CatchmentPageCandidates(req.school, ArgsGet(req.suburb, ""))

\* C21: in get_school_addresses total_count is the number of distinct
\* addresses the page query returns with unbounded limit and offset 0, for
\* every school and filter set.
C21_TotalCountsThePageQuery ==
    (req.handler = "get_school_addresses" /\ resp.status = 200) =>
        resp.total = Cardinality(AllPageAddresses)

\* the decimal string a client sends for the integer n
str(n) == CHOOSE literal \in IntLiterals : int(literal) = n

\* the page sizes a paging client asks for
PagerLimits == {"0", "1", "2"}

\* a store for paging: every catchment, addresses around the Sydney site,
\* and no client yet
InitPaging ==
    /\ school_catchments = CatchmentPolygons
    /\ school_geometry = [i \in AcaraIds |-> [latitude |-> -33870, longitude |-> 151210]]
    /\ addresses \in [1..MaxAddr -> NearbyRows([latitude |-> -33870, longitude |-> 151210])]
    /\ req = NoRequest
    /\ resp = NoResponse
    /\ fault = "none"
    /\ OfflineAtRest
    /\ NoAccounts
    /\ pager = NoPager
    /\ workers = <<>>
    /\ stripe = <<>>

\* a client chooses a school and a page size and starts at offset 0
start_paging ==
    /\ pager = NoPager
    /\ \E school_id \in SchoolIds, limit \in PagerLimits :
         pager' = [school |-> school_id, limit |-> limit, offset |-> 0,
                   received |-> <<>>, showing_count |-> -1, has_more |-> TRUE]
    /\ UNCHANGED <<store, offline, accounts, req, resp, fault, workers, stripe>>

\* the client asks get_school_addresses for the page at its offset, keeps
\* the addresses of the answer and moves its offset by showing_count
request_page ==
    /\ pager.has_more
    /\ \E location \in SchoolCatchment(pager.school) :
         LET args == [NoRequest EXCEPT !.limit = pager.limit, !.offset = str(pager.offset)]
             r == SchoolAddresses(pager.school, args, TRUE, location)
         IN  pager' = [pager EXCEPT
                         !.received = @ \o [i \in 1..Len(r.addresses) |-> r.addresses[i].gnaf_id],
                         !.showing_count = Len(r.addresses),
                         !.offset = @ + Len(r.addresses),
                         !.has_more = r.has_more]
    /\ UNCHANGED <<store, offline, accounts, req, resp, fault, workers, stripe>>

NextPaging ==
    \/ start_paging
    \/ request_page

\* the client keeps asking while it is told that there is more
SpecPaging == InitPaging /\ [][NextPaging]_vars /\ WF_vars(request_page)

\* the client has received every address that matches, each once
ReceivedAllOnce ==
    /\ {pager.received[i] : i \in DOMAIN pager.received} = CatchmentPageCandidates(pager.school, "")
    /\ \A i, j \in DOMAIN pager.received : pager.received[i] = pager.received[j] => i = j

\* C22: a client that pages get_school_addresses on an unchanged store by
\* offset := offset + showing_count while has_more is true eventually
\* receives has_more = false and by then has received every matching
\* address exactly once; has_more is never true on a page that returned
\* zero addresses.
C22_PagingEndsWithEverything ==
    /\ [](pager # NoPager => <>(~pager.has_more))
    /\ []((pager # NoPager /\ ~pager.has_more) => ReceivedAllOnce)
    /\ [](pager.showing_count = 0 => ~pager.has_more)

----------------------------------------------------------------------------
(* autocomplete_schools over stores with few and with many schools.        *)

\* the secondary catchment of the school that has a primary one
AlphaSecondary ==
    [school_id |-> "8102", school_name |-> "Alpha Public School", school_type |-> "secondary",
     school_lat |-> -33870, school_lng |-> 151210,
     lat_min |-> -34100, lat_max |-> -33400, lng_min |-> 150900, lng_max |-> 151600]

\* the catchments of the first n colleges of the district
Colleges(n) ==
    { [school_id |-> CollegeNames[i], school_name |-> CollegeNames[i],
       school_type |-> "secondary", school_lat |-> NULL, school_lng |-> NULL,
       lat_min |-> -30100, lat_max |-> -30000, lng_min |-> 150000, lng_max |-> 150100] :
      i \in 1..n }

\* the q and type parameters the model sends to autocomplete_schools
AutocompleteRequests ==
    { [NoRequest EXCEPT !.handler = "autocomplete_schools", !.q = q, !.school_type = t] :
        q \in {Missing, "al", "alpha", "public", "school", "alpha public school",
               "zeta", "college"},
        t \in {Missing, "primary", "SECONDARY", "all"} }

\* stores with some of the catchments and with 0, 20 or 21 colleges
InitAutocomplete ==
    /\ \E base \in SUBSET (CatchmentPolygons \cup {AlphaSecondary}),
          n \in {0, AutocompleteLimit, Len(CollegeNames)} :
         school_catchments = base \cup Colleges(n)
    /\ school_geometry = <<>>
    /\ addresses = <<>>
    /\ req = NoRequest
    /\ resp = NoResponse
    /\ fault = "none"
    /\ OfflineAtRest
    /\ NoAccounts
    /\ ClientsAtRest

\* GET /api/autocomplete/schools by a logged-in user
autocomplete_schools ==
    /\ Idle
    /\ \E rq \in AutocompleteRequests, connected \in BOOLEAN :
         /\ req' = rq
         /\ resp' \in AutocompleteSchools(rq, connected)
         /\ fault' = IF resp'.error = "Database connection failed" THEN "connect" ELSE "none"
    /\ UNCHANGED <<clients, store, offline, accounts>>

NextAutocomplete ==
    \/ autocomplete_schools
    \/ Return

SpecAutocomplete == InitAutocomplete /\ [][NextAutocomplete]_vars

\* the catchments of the type the request asks for
RequestedType ==
    LET t == ArgsGet(req.school_type, "")
    IN  IF t \in {"", "all"} THEN school_catchments
        ELSE {c \in school_catchments :
                \/ t = "primary"   /\ c.school_type = "primary"
                \/ t = "SECONDARY" /\ c.school_type = "secondary"}

\* the school names of the response
ReturnedNames == {resp.schools[i].school_name : i \in DOMAIN resp.schools}

\* C23: autocomplete_schools answers with a school that is not an exact
\* match of q only if no school of the requested type matches exactly, and
\* with a school that matches only by substring only if no school of the
\* requested type starts with q; an answer of starts-with or substring
\* matches has at most 20 entries; every entry matches q and is of the
\* requested type.
C23_ExactThenPrefixThenSubstring ==
    (req.handler = "autocomplete_schools" /\ resp.status = 200) =>
        LET exact == {c \in RequestedType : NameEquals(c.school_name, req.q)}
            prefix == {c \in RequestedType : NameStartsWith(c.school_name, req.q)}
        IN  /\ (\E n \in ReturnedNames : ~NameEquals(n, req.q)) => exact = {}
            /\ (\E n \in ReturnedNames : ~NameStartsWith(n, req.q)) => prefix = {}
            /\ exact = {} => Len(resp.schools) <= 20
            /\ \A i \in DOMAIN resp.schools :
                 /\ NameContains(resp.schools[i].school_name, req.q)
                 /\ \E c \in RequestedType : c.school_id = resp.schools[i].school_id

\* C23 witness: 21 colleges contain the query, none starts with it, and
\* the answer holds the first 20 of them
C23_Witness ==
    /\ req.handler = "autocomplete_schools"
    /\ req.q = "college"
    /\ resp.status = 200
    /\ Cardinality({c \in school_catchments : NameContains(c.school_name, "college")}) = 21
    /\ Len(resp.schools) = 20
    /\ resp.schools[20].school_name = "Zeta College 20"

----------------------------------------------------------------------------
(* track_api_usage: the decorator that counts searches and enforces the    *)
(* monthly limit of the tier, around a view function, for requests of one  *)
(* logged-in user that are served at the same time.                        *)

\* number of requests served at the same time
MaxWorkers == 2

\* the largest finite searches_per_month of a tier
MaxSearches == 2

\* searches_per_month of the tier of the user: NULL is unlimited
TierLimits == {NULL} \cup (1..MaxSearches)

\* a user row joined to its tier, with the limit of the tier
UserWithLimit(searches_per_month) ==
    [is_active |-> TRUE, tier_name |-> IF searches_per_month = NULL THEN "Premium" ELSE "Free",
     subscription_status |-> "active", last_login |-> "set",
     searches_per_month |-> searches_per_month]

\* a worker that serves no request
IdleWorker ==
    [pc |-> "idle", conn |-> "none", limit_hit |-> FALSE, executed |-> FALSE,
     recorded |-> FALSE, status |-> 0, error |-> "", info |-> <<>>]

\* get_monthly_usage(conn): conn.cursor() raises InterfaceError on a
\* closed connection; else SELECT COUNT(*) of the rows of the user in the
\* current month
get_monthly_usage(conn) ==
    IF conn = "open"
    THEN [raised |-> FALSE, count |-> usage_tracking]
    ELSE [raised |-> TRUE, count |-> 0]

\* has_searches_remaining(conn)
has_searches_remaining(user, conn) ==
    IF user.searches_per_month = NULL
    THEN TRUE
    ELSE get_monthly_usage(conn).count < user.searches_per_month

\* the branch of the decorator for a user without searches left:
\* remaining is computed, the connection is closed, and the body of the
\* 429 response is built, with searches_used read by get_monthly_usage on
\* the connection that was just closed.  An exception leaves the decorator
\* and Flask answers 500.
LimitReached(w, user) ==
    LET remaining == user.searches_per_month - get_monthly_usage(w.conn).count
        closed == "closed"
        searches_used == get_monthly_usage(closed)
    IN  IF searches_used.raised
        THEN [w EXCEPT !.pc = "done", !.conn = closed, !.limit_hit = TRUE,
                       !.status = 500, !.error = "Internal Server Error"]
        ELSE [w EXCEPT !.pc = "done", !.conn = closed, !.limit_hit = TRUE,
                       !.status = 429, !.error = "Monthly search limit reached",
                       !.info = << [searches_used |-> searches_used.count,
                                    searches_limit |-> user.searches_per_month] >>]

\* one user, logged in, with the limit of its tier; no usage row yet
InitUsage ==
    /\ users \in {[id \in UserIds |-> UserWithLimit(n)] : n \in TierLimits}
    /\ session = "1"
    /\ db_log = <<>>
    /\ usage_tracking = 0
    /\ workers = [w \in 1..MaxWorkers |-> IdleWorker]
    /\ pager = NoPager
    /\ stripe = <<>>
    /\ WebAtRest
    /\ OfflineAtRest

\* a request enters decorated_function: get_db_connection, and the check
\* of has_searches_remaining (one SELECT)
track_api_usage_check ==
    /\ usage_tracking <= MaxUsage
    /\ \E w \in DOMAIN workers, connected \in BOOLEAN :
         /\ workers[w].pc = "idle"
         /\ workers' =
              [workers EXCEPT ![w] =
                 IF ~connected
                 THEN [IdleWorker EXCEPT !.pc = "done", !.status = 500,
                                         !.error = "Database connection failed"]
                 ELSE IF ~has_searches_remaining(users[session], "open")
                 THEN LimitReached([IdleWorker EXCEPT !.conn = "open"], users[session])
                 ELSE [IdleWorker EXCEPT !.pc = "view", !.conn = "open"]]
    /\ UNCHANGED <<store, offline, req, resp, fault, accounts, pager, stripe>>

\* response = f(*args, **kwargs): the endpoint is executed
track_api_usage_view ==
    /\ \E w \in DOMAIN workers, status \in {200, 404} :
         /\ workers[w].pc = "view"
         /\ workers' = [workers EXCEPT ![w].pc = "track", ![w].executed = TRUE,
                                       ![w].status = status]
    /\ UNCHANGED <<store, offline, req, resp, fault, accounts, pager, stripe>>

\* current_user.track_usage(...): INSERT INTO webapp.usage_tracking and
\* commit; the connection is closed and the response returned
track_api_usage_record ==
    /\ \E w \in DOMAIN workers :
         /\ workers[w].pc = "track"
         /\ workers' = [workers EXCEPT ![w].pc = "done", ![w].recorded = TRUE,
                                       ![w].conn = "closed"]
         /\ usage_tracking' = usage_tracking + 1
    /\ UNCHANGED <<store, offline, req, resp, fault, users, session, db_log, pager, stripe>>

\* the response has gone to the client and the worker is free again
track_api_usage_return ==
    /\ \E w \in DOMAIN workers :
         /\ workers[w].pc = "done"
         /\ workers' = [workers EXCEPT ![w] = IdleWorker]
    /\ UNCHANGED <<store, offline, req, resp, fault, accounts, pager, stripe>>

NextUsage ==
    \/ track_api_usage_check
    \/ track_api_usage_view
    \/ track_api_usage_record
    \/ track_api_usage_return

SpecUsage == InitUsage /\ [][NextUsage]_vars

\* C24: when the user has a finite searches_per_month and no searches
\* remaining, the wrapped endpoint is not executed, no usage row is
\* recorded for the request, and the response is 429 'Monthly search limit
\* reached' carrying searches_used and searches_limit.
C24_LimitReachedIs429 ==
    \A w \in DOMAIN workers :
        workers[w].limit_hit =>
            /\ ~workers[w].executed
            /\ ~workers[w].recorded
            /\ workers[w].status = 429
            /\ workers[w].error = "Monthly search limit reached"
            /\ workers[w].info # <<>>

\* C25: for a user with searches_per_month = N the number of usage rows of
\* the month never exceeds N, whatever the interleaving of the requests
\* that pass through the decorator at the same time.
C25_UsageNeverExceedsLimit ==
    \A id \in DOMAIN users :
        users[id].searches_per_month # NULL => usage_tracking <= users[id].searches_per_month

----------------------------------------------------------------------------
(* Payments: create_checkout_session and the Stripe webhook.               *)

\* the largest number of webhook events that change a user row
MaxEvents == 3

PaymentUserIds == {"1", "2"}

\* the customer ids of Stripe
CustomerIds == {"cus_A", "cus_B"}

\* the stripe_customer_id of a row that has none (SQL NULL)
NoCustomer == "<null>"

\* subscription['status'] of a customer.subscription.updated event
SubscriptionStatuses == {"active", "past_due"}

\* a row of webapp.users joined to its tier: tier_id 1 is the tier named
\* Free ("Create a new user with Free tier"), tier_id 2 the tier named
\* Premium ("Upgrade user to Premium")
PaymentUser(stripe_customer_id) ==
    [is_active |-> TRUE, tier_name |-> "Free", subscription_status |-> "active",
     last_login |-> "set", stripe_customer_id |-> stripe_customer_id]

\* Stripe before any customer, checkout session or event
NoStripe == [customers |-> {}, sessions |-> {}, log |-> <<>>]

\* the User object that load_user builds from a row: User.__init__ sets
\* the columns of the SELECT of get_by_id, and stripe_customer_id is not
\* one of them
User(row) == [tier_name |-> row.tier_name, subscription_status |-> row.subscription_status]

\* the object has the attribute; reading another one raises AttributeError
hasattr(object, name) == name \in DOMAIN object

\* the id Stripe gives to the next customer it creates
NewCustomerId == CHOOSE c \in CustomerIds : c \notin stripe.customers

InitPayments ==
    /\ users = [id \in PaymentUserIds |-> PaymentUser(NoCustomer)]
    /\ session \in {Missing} \cup PaymentUserIds
    /\ db_log = <<>>
    /\ usage_tracking = 0
    /\ stripe = NoStripe
    /\ pager = NoPager
    /\ workers = <<>>
    /\ WebAtRest
    /\ OfflineAtRest

\* POST /api/create-checkout-session, behind login_required.  Everything
\* is inside try/except Exception, which answers 400 with the message of
\* the exception: conn.cursor() on the None of a failed connection, and
\* the read of current_user.stripe_customer_id when the object has no such
\* attribute.
create_checkout_session ==
    /\ Idle
    /\ \E loaded \in BOOLEAN, connected \in BOOLEAN :
         LET row == load_user(session, loaded)
         IN  /\ req' = [NoRequest EXCEPT !.handler = "create_checkout_session"]
             /\ fault' = IF session # Missing /\ ~loaded THEN "load_user"
                         ELSE IF ~connected THEN "connect" ELSE "none"
             /\ db_log' = (IF session = Missing THEN <<>> ELSE <<"load_user">>)
                          \o (IF session = Missing \/ row = <<>> THEN <<>> ELSE <<"view">>)
             /\ IF session = Missing \/ row = <<>>
                THEN /\ resp' = [NoResponse EXCEPT !.status = 302]
                     /\ UNCHANGED <<users, stripe>>
                ELSE IF ~connected
                THEN /\ resp' = ErrorResponse(400, "'NoneType' object has no attribute 'cursor'")
                     /\ UNCHANGED <<users, stripe>>
                ELSE IF ~hasattr(User(row[1]), "stripe_customer_id")
                THEN /\ resp' = ErrorResponse(400,
                                  "'User' object has no attribute 'stripe_customer_id'")
                     /\ UNCHANGED <<users, stripe>>
                ELSE LET stored == User(row[1]).stripe_customer_id
                         customer_id == IF stored = NoCustomer THEN NewCustomerId ELSE stored
                     IN  /\ users' = [users EXCEPT ![session].stripe_customer_id = customer_id]
                         /\ stripe' = [stripe EXCEPT !.customers = @ \cup {customer_id},
                                                     !.sessions = @ \cup {customer_id}]
                         /\ resp' = [NoResponse EXCEPT
                                       !.status = 200,
                                       !.info = << [sessionId |-> customer_id] >>]
    /\ UNCHANGED <<store, offline, session, usage_tracking, pager, workers>>

\* an UPDATE that also gives the Premium tier back with the status active
SubscriptionUpdatedWithTier(row, status) ==
    [row EXCEPT !.subscription_status = status,
                !.tier_name = IF status = "active" THEN "Premium" ELSE @]

\* the UPDATE of handle_subscription_updated on a row of the customer
SubscriptionUpdated(row, status) == [row EXCEPT !.subscription_status = status]

\* the response of stripe_webhook after a handler: the handler swallows an
\* exception of its UPDATE and rolls back; a failed connection makes
\* conn.cursor() raise before the try and Flask answers 500
WebhookResponse(outcome) ==
    IF outcome = "down"
    THEN ErrorResponse(500, "Internal Server Error")
    ELSE [NoResponse EXCEPT !.status = 200, !.info = << [status |-> "success"] >>]

\* the outcomes of the database work of a handler
HandlerOutcomes == {"commit", "rollback", "down"}

\* the log of Stripe after an event whose UPDATE was committed
Delivered(event) == [stripe EXCEPT !.log = Append(@, event)]

\* stripe_webhook with a payload that construct_event rejects: 400 before
\* any handler
stripe_webhook_invalid ==
    /\ Idle
    /\ \E error \in {"Invalid payload", "Invalid signature"} :
         /\ req' = [NoRequest EXCEPT !.handler = "stripe_webhook", !.q = "invalid"]
         /\ resp' = ErrorResponse(400, error)
    /\ fault' = "none"
    /\ UNCHANGED <<store, offline, accounts, clients>>

\* stripe_webhook with checkout.session.completed
handle_checkout_session_completed ==
    /\ Idle
    /\ \E user_id \in PaymentUserIds, customer_id \in CustomerIds, outcome \in HandlerOutcomes :
         /\ outcome = "commit" => Len(stripe.log) < MaxEvents
         /\ req' = [NoRequest EXCEPT !.handler = "stripe_webhook",
                                     !.q = "checkout.session.completed"]
         /\ resp' = WebhookResponse(outcome)
         /\ fault' = IF outcome = "commit" THEN "none" ELSE outcome
         /\ IF outcome = "commit"
            THEN /\ users' = [users EXCEPT ![user_id].tier_name = "Premium",
                                           ![user_id].stripe_customer_id = customer_id,
                                           ![user_id].subscription_status = "active"]
                 /\ stripe' = Delivered([type |-> "checkout.session.completed",
                                         customer |-> customer_id, user_id |-> user_id])
            ELSE UNCHANGED <<users, stripe>>
    /\ UNCHANGED <<store, offline, session, db_log, usage_tracking, pager, workers>>

\* stripe_webhook with customer.subscription.updated
handle_subscription_updated ==
    /\ Idle
    /\ \E customer_id \in CustomerIds, status \in SubscriptionStatuses,
          outcome \in HandlerOutcomes :
         /\ outcome = "commit" => Len(stripe.log) < MaxEvents
         /\ req' = [NoRequest EXCEPT !.handler = "stripe_webhook",
                                     !.q = "customer.subscription.updated"]
         /\ resp' = WebhookResponse(outcome)
         /\ fault' = IF outcome = "commit" THEN "none" ELSE outcome
         /\ IF outcome = "commit"
            THEN /\ users' = [id \in DOMAIN users |->
                                IF users[id].stripe_customer_id = customer_id
                                THEN SubscriptionUpdated(users[id], status)
                                ELSE users[id]]
                 /\ stripe' = Delivered([type |-> "customer.subscription.updated",
                                         customer |-> customer_id, user_id |-> Missing])
            ELSE UNCHANGED <<users, stripe>>
    /\ UNCHANGED <<store, offline, session, db_log, usage_tracking, pager, workers>>

\* stripe_webhook with customer.subscription.deleted
handle_subscription_deleted ==
    /\ Idle
    /\ \E customer_id \in CustomerIds, outcome \in HandlerOutcomes :
         /\ outcome = "commit" => Len(stripe.log) < MaxEvents
         /\ req' = [NoRequest EXCEPT !.handler = "stripe_webhook",
                                     !.q = "customer.subscription.deleted"]
         /\ resp' = WebhookResponse(outcome)
         /\ fault' = IF outcome = "commit" THEN "none" ELSE outcome
         /\ IF outcome = "commit"
            THEN /\ users' = [id \in DOMAIN users |->
                                IF users[id].stripe_customer_id = customer_id
                                THEN [users[id] EXCEPT !.tier_name = "Free",
                                                       !.subscription_status = "cancelled"]
                                ELSE users[id]]
                 /\ stripe' = Delivered([type |-> "customer.subscription.deleted",
                                         customer |-> customer_id, user_id |-> Missing])
            ELSE UNCHANGED <<users, stripe>>
    /\ UNCHANGED <<store, offline, session, db_log, usage_tracking, pager, workers>>

NextPayments ==
    \/ create_checkout_session
    \/ stripe_webhook_invalid
    \/ handle_checkout_session_completed
    \/ handle_subscription_updated
    \/ handle_subscription_deleted
    \/ Return

SpecPayments == InitPayments /\ [][NextPayments]_vars

\* C26: for a logged-in user with no stored Stripe customer id,
\* create_checkout_session creates a customer, stores its id on the row of
\* the user, creates a checkout session for it and returns its sessionId;
\* for a user with a stored id it reuses the id and creates no customer.
C26_CheckoutSessionForCustomer ==
    [][(req'.handler = "create_checkout_session" /\ Authenticated /\ fault' = "none") =>
         /\ resp'.status = 200
         /\ resp'.info # <<>>
         /\ users'[session].stripe_customer_id \in stripe'.sessions
         /\ IF users[session].stripe_customer_id = NoCustomer
            THEN /\ users'[session].stripe_customer_id \in stripe'.customers \ stripe.customers
            ELSE /\ users'[session].stripe_customer_id = users[session].stripe_customer_id
                 /\ stripe'.customers = stripe.customers]_vars

\* customer.subscription.deleted was handled for the customer of the user
\* and no checkout.session.completed of the user was handled after it
CancelledSince(id) ==
    \E i \in DOMAIN stripe.log :
        /\ stripe.log[i].type = "customer.subscription.deleted"
        /\ stripe.log[i].customer = users[id].stripe_customer_id
        /\ \A j \in DOMAIN stripe.log :
             (j > i /\ stripe.log[j].type = "checkout.session.completed")
                 => stripe.log[j].user_id # id

\* C27: once customer.subscription.deleted has been handled for the
\* customer of a user, is_premium() of the user is false, and it stays
\* false through later customer.subscription.updated events until a later
\* checkout.session.completed for the user; an event with an invalid
\* payload or signature changes no user row.
C27_CancelledUntilNextCheckout ==
    /\ [](\A id \in DOMAIN users :
            CancelledSince(id) => (~is_premium(users[id]) /\ users[id].tier_name = "Free"))
    /\ [][(req'.handler = "stripe_webhook" /\ resp'.status = 400) => users' = users]_vars

\* C27 witness: a user upgraded by a checkout, downgraded by the deletion
\* of the subscription, and then reported active again by an update
C27_Witness ==
    \E id \in DOMAIN users :
        /\ CancelledSince(id)
        /\ Len(stripe.log) = 3
        /\ stripe.log[3].type = "customer.subscription.updated"
        /\ stripe.log[3].customer = users[id].stripe_customer_id
        /\ users[id].subscription_status = "active"
====
